---- MODULE Spec2Model ----
(***************************************************************************)
(* Fork lifecycle orchestration and reconciliation of the fork terminal UI *)
(* (src/src/components/ForkTerminalUI.tsx) together with the useForks hook *)
(* and the ForkWebSocket channel (src/unnamed/part_000).                   *)
(*                                                                         *)
(* Conventions.                                                            *)
(*  - React state is a variable; a functional updater setX(prev => ...) is *)
(*    applied to the current value of the variable.                        *)
(*  - A useCallback closure reads the values of the render it was created  *)
(*    in.  A handler invoked by the user is the one of the latest render,  *)
(*    so it captures the state at the moment of the call; a continuation   *)
(*    that runs later (setTimeout, await) still reads that captured state. *)
(*    The captured values are carried in the `closure` field of the        *)
(*    pending launch.                                                      *)
(*  - An await on the network is a step of its own; code that runs in one  *)
(*    JavaScript task (and the microtasks it chains) is one action.        *)
(*  - The Gateway (HTTP API and the process behind the push channel) is    *)
(*    not part of the sources.  It is modelled as a well-behaved           *)
(*    environment: it issues each fork id once, a fork's status on the     *)
(*    server only moves running -> completed | failed | terminated, and    *)
(*    its output only grows.                                               *)
(*  - Sounds, animations, themes and panel visibility are not modelled.    *)
(***************************************************************************)
EXTENDS Integers, Sequences, FiniteSets, TLC

VARIABLES
  localForks,       \* ForkTerminalUI: useState<Fork[]> localForks
  forkIdCounter,    \* ForkTerminalUI: useRef(1) forkIdCounter
  multiForkQueue,   \* ForkTerminalUI: useState<QueueItem[]> multiForkQueue
  terminalOutput,   \* ForkTerminalUI: useState<TerminalLine[]> terminalOutput
  maxConcurrent,    \* settings.maxConcurrent
  launches,         \* pending launch sequences (timers and awaited creates)
  terminates,       \* cancelFork calls awaiting terminateFork
  apiForks,         \* useForks: useState<Fork[]> forks
  fetches,          \* fetchForks calls awaiting api.getForks
  fetchCount,       \* number of fetchForks calls issued so far
  remote,           \* Gateway side: the forks the Gateway has created
  channel,          \* push messages the Gateway has sent, not yet delivered
  sockets,          \* every WebSocket created so far: its readyState
  ws,               \* ForkWebSocket.ws: index into sockets, 0 for null
  reconnectAttempts,\* ForkWebSocket.reconnectAttempts
  reconnectTimers,  \* pending setTimeout(() => this.connect(), delay): delays
  disconnected,     \* disconnect() was the caller's last call on the channel
  consoleErrors,    \* console.error calls of ws.onmessage so far
  listeners,        \* ForkWebSocket.listeners: event type -> callbacks
  calls,            \* the callbacks the latest emit has called, in order
  stats,            \* ForkTerminalUI: useState<ForkStats> stats
  now               \* wall clock (Date.now()), in ticks

\* The push channel: the messages in flight and the ForkWebSocket object.
chanVars == <<channel, sockets, ws, reconnectAttempts, reconnectTimers,
              disconnected, consoleErrors, listeners, calls>>

vars == <<localForks, forkIdCounter, multiForkQueue, terminalOutput,
          maxConcurrent, launches, terminates, apiForks, fetches, fetchCount,
          remote, chanVars, stats, now>>

----------------------------------------------------------------------------
(* Bounds of the model. *)

\* Fork records createLocalFork may create in one run of the scheduler.
MaxForks == 2
\* Lines kept per simulated or remote output sequence.
MaxOutput == 1
\* Entries the batch queue may hold.
MaxQueue == 3
\* Lines the activity log may reach in the scheduler's specification.
MaxLog == 9
\* How many of an agent's canned output strings getRandomOutput draws from.
OutputChoices == 1
\* How many distinct progress increments a tick draws from.
IncrementChoices == 1
\* How many distinct fallback pids Math.random() yields.
PidChoices == 1

----------------------------------------------------------------------------
(* Values. *)

Unset == -1       \* an optional numeric field that is undefined
NoWorkflow == "none"  \* workflowId undefined

ActiveStatuses == {"running", "spawning", "queued"}
TerminalStatuses == {"completed", "failed", "cancelled", "terminated"}
ForkStatus == ActiveStatuses \cup TerminalStatuses

LocalId(n) == "local-" \o ToString(n)   \* `local-${forkIdCounter.current++}`
RemoteId(n) == "fork-" \o ToString(n)   \* the n-th id the Gateway issues

Agents == {"claude", "codex", "gemini", "raw"}

\* DEFAULT_AGENTS[agent].name; the fallback of useAgents carries the same names.
AgentName(agent) ==
  CASE agent = "claude" -> "Claude Code"
    [] agent = "codex" -> "Codex CLI"
    [] agent = "gemini" -> "Gemini CLI"
    [] OTHER -> "Raw CLI"

\* agents[agent]?.models[tier] || 'N/A'
AgentModel(agent, tier) ==
  CASE agent = "claude" -> (IF tier = "fast" THEN "haiku" ELSE "opus")
    [] agent = "codex" ->
         (IF tier = "fast" THEN "gpt-5.1-codex-mini" ELSE "gpt-5.1-codex-max")
    [] agent = "gemini" ->
         (CASE tier = "fast" -> "gemini-2.5-flash"
            [] tier = "default" -> "gemini-3-pro-preview"
            [] OTHER -> "gemini-3-pro")
    [] OTHER -> "N/A"

\* The canned lines of getRandomOutput, per agent (unknown agents use raw's).
OutputLines(agent) ==
  CASE agent = "claude" ->
         <<"Analyzing code structure...", "Identifying patterns...",
           "Generating suggestions...", "Running static analysis...",
           "Checking dependencies...">>
    [] agent = "codex" ->
         <<"Parsing AST...", "Evaluating complexity...", "Generating tests...",
           "Optimizing logic...", "Validating syntax...">>
    [] agent = "gemini" ->
         <<"Processing request...", "Analyzing context...",
           "Generating documentation...", "Reviewing structure...",
           "Compiling results...">>
    [] OTHER ->
         <<"Executing command...", "Processing output...",
           "Waiting for response...">>

Min(a, b) == IF a < b THEN a ELSE b

\* list[Math.floor(Math.random() * list.length)], the draw limited to the
\* first OutputChoices entries.
getRandomOutput(agent) ==
  { OutputLines(agent)[k] : k \in 1..Min(OutputChoices, Len(OutputLines(agent))) }

\* Math.random() * 8 + 2 lies in [2, 10); whole increments, the largest first.
Increments == { 9 - k : k \in 0..Min(IncrementChoices - 1, 7) }

\* Math.floor(Math.random() * 90000) + 10000
RandomPids == { 10000 + k : k \in 0..Min(PidChoices - 1, 89999) }

\* Prompts the user may have typed when a launch-panel handler runs.
Prompts == {"", " ", "x"}

IsSpace(c) == c \in {" ", "\t", "\n"}

RECURSIVE TrimStart(_)
TrimStart(s) ==
  IF Len(s) > 0 /\ IsSpace(SubSeq(s, 1, 1))
  THEN TrimStart(SubSeq(s, 2, Len(s)))
  ELSE s

RECURSIVE TrimEnd(_)
TrimEnd(s) ==
  IF Len(s) > 0 /\ IsSpace(SubSeq(s, Len(s), Len(s)))
  THEN TrimEnd(SubSeq(s, 1, Len(s) - 1))
  ELSE s

\* String.prototype.trim
Trim(s) == TrimEnd(TrimStart(s))

\* `Task: "${fork.task.slice(0, 60)}${fork.task.length > 60 ? '...' : ''}"`
TaskPreview(task) ==
  "Task: \"" \o SubSeq(task, 1, Min(60, Len(task)))
            \o (IF Len(task) > 60 THEN "..." ELSE "") \o "\""

----------------------------------------------------------------------------
(* Records. *)

\* An output line { time, text }.  A line the Gateway sends as a plain string
\* has no time of its own (time = Unset) until the merge normalises it.
Line(time, text) == [time |-> time, text |-> text]

\* createLocalFork: the Fork object of a fresh local record.  (The `prompt`
\* field always equals `task` and is not carried separately.)
createLocalFork(n, agent, tier, taskPrompt, includeSummary, workflowId) ==
  [ id |-> LocalId(n),
    agent |-> agent,
    model |-> AgentModel(agent, tier),
    modelTier |-> tier,
    status |-> "queued",
    task |-> taskPrompt,
    startedAt |-> now,
    completedAt |-> Unset,
    duration |-> Unset,
    progress |-> 0,
    pid |-> Unset,
    output |-> <<>>,
    includeSummary |-> includeSummary,
    workflowId |-> workflowId ]

\* The value of a missing response body.
NoData == [createLocalFork(0, "raw", "default", "", FALSE, NoWorkflow)
             EXCEPT !.id = ""]

HasId(forks, id) == \E i \in DOMAIN forks : forks[i].id = id

\* localForks.find(lf => lf.id === id): the first record with that id.
FindFork(forks, id) ==
  forks[CHOOSE i \in DOMAIN forks :
          /\ forks[i].id = id
          /\ \A j \in DOMAIN forks : forks[j].id = id => i <= j]

CountStatus(forks, statuses) ==
  Cardinality({i \in DOMAIN forks : forks[i].status \in statuses})

----------------------------------------------------------------------------
(* Activity log. *)

\* prev => [...prev.slice(-100), { type, text: `> ${text}`, time: new Date() }]
LogKeep == 100

LastN(seq, n) ==
  IF Len(seq) <= n THEN seq ELSE SubSeq(seq, Len(seq) - n + 1, Len(seq))

addTerminalLine_Mutant(log, type, text) ==
  Append(LastN(log, LogKeep + 1), [type |-> type, text |-> "> " \o text, time |-> now])

addTerminalLine(log, type, text) ==
  Append(LastN(log, LogKeep), [type |-> type, text |-> "> " \o text, time |-> now])

\* The three lines terminalOutput is initialised with.
InitialTerminalOutput ==
  << [type |-> "system", text |-> "> Fork Terminal v2.0.0 initialized", time |-> 0],
     [type |-> "system", text |-> "> Agent orchestration layer online", time |-> 0],
     [type |-> "info", text |-> "> Ready to spawn parallel agents...", time |-> 0] >>

----------------------------------------------------------------------------
(* Workflow templates. *)

WorkflowFork(agent, tier, prompt) ==
  [agent |-> agent, modelTier |-> tier, prompt |-> prompt]

WORKFLOW_TEMPLATES ==
  << [ id |-> "code-review-all", name |-> "Multi-Agent Code Review",
       forks |-> <<
         WorkflowFork("claude", "default",
           "Review the codebase for architecture patterns and suggest improvements"),
         WorkflowFork("codex", "default",
           "Analyze code for potential bugs, edge cases, and error handling"),
         WorkflowFork("gemini", "default",
           "Review documentation completeness and suggest improvements") >> ],
     [ id |-> "test-generation", name |-> "Parallel Test Generation",
       forks |-> <<
         WorkflowFork("claude", "default",
           "Generate comprehensive unit tests for all modules"),
         WorkflowFork("codex", "default",
           "Generate integration tests for API endpoints"),
         WorkflowFork("gemini", "fast",
           "Generate end-to-end test scenarios") >> ],
     [ id |-> "refactor-race", name |-> "Refactor Race",
       forks |-> <<
         WorkflowFork("claude", "heavy",
           "Refactor the main module for better performance and readability"),
         WorkflowFork("codex", "heavy",
           "Refactor the main module for better performance and readability"),
         WorkflowFork("gemini", "heavy",
           "Refactor the main module for better performance and readability") >> ],
     [ id |-> "full-docs", name |-> "Documentation Blitz",
       forks |-> <<
         WorkflowFork("claude", "default",
           "Generate comprehensive API documentation in markdown"),
         WorkflowFork("gemini", "default",
           "Create a getting started guide and tutorials"),
         WorkflowFork("codex", "fast",
           "Generate inline code comments and docstrings") >> ] >>

----------------------------------------------------------------------------
(* Merged view. *)

\* typeof o === 'string' ? { time: new Date(), text: o } : o
NormalizeLine(o) == IF o.time = Unset THEN Line(now, o.text) ELSE o

NormalizeOutput(output) == [k \in DOMAIN output |-> NormalizeLine(output[k])]

\* allForks: the local records, then every api record whose id no local
\* record holds, its output normalised.
MergeForks(local, api) ==
  local \o [k \in DOMAIN SelectSeq(api, LAMBDA f : ~HasId(local, f.id)) |->
             [SelectSeq(api, LAMBDA f : ~HasId(local, f.id))[k] EXCEPT
                !.output = NormalizeOutput(@)]]

allForks == MergeForks(localForks, apiForks)

----------------------------------------------------------------------------
(* Stats. *)

\* useState<ForkStats>: the value before the first recomputation.
InitialStats ==
  [ totalForks |-> 0, completedForks |-> 0,
    avgDuration |-> [sum |-> 0, count |-> 0],
    agentUsage |-> [claude |-> 0, codex |-> 0, gemini |-> 0, raw |-> 0] ]

RECURSIVE SumDurations(_)
SumDurations(forks) ==
  IF forks = <<>> THEN 0 ELSE Head(forks).duration + SumDurations(Tail(forks))

\* The object the stats effect passes to setStats.  avgDuration is kept as
\* the sum and the number of the durations it divides, 0 of 0 standing for
\* the literal 0.
computeStats(forks) ==
  LET completed == SelectSeq(forks, LAMBDA f : f.status = "completed")
      durations == SelectSeq(completed, LAMBDA f : f.duration # Unset /\ f.duration # 0)
  IN [ totalForks |-> Len(forks),
       completedForks |-> Len(completed),
       avgDuration |-> [sum |-> SumDurations(durations), count |-> Len(durations)],
       agentUsage |->
         [ claude |-> Len(SelectSeq(forks, LAMBDA f : f.agent = "claude")),
           codex |-> Len(SelectSeq(forks, LAMBDA f : f.agent = "codex")),
           gemini |-> Len(SelectSeq(forks, LAMBDA f : f.agent = "gemini")),
           raw |-> Len(SelectSeq(forks, LAMBDA f : f.agent = "raw")) ] ]

\* The render that follows a write to localForks or to the hook's forks, and
\* its stats effect: allForks is a new array on every render, so the effect
\* runs after each one.
Render_Mutant == stats' = computeStats(localForks')

Render == stats' = computeStats(MergeForks(localForks', apiForks'))

----------------------------------------------------------------------------
(* Scheduler. *)

\* What the callbacks of the current render close over.  canLaunchFork is
\* the only reader of its localForks, and reads no more than the number of
\* records that are running, spawning or queued: the closure carries that
\* number (runningCount) instead of the array it is computed from.
Closure ==
  [ runningCount |-> CountStatus(localForks, {"running", "spawning", "queued"}),
    maxConcurrent |-> maxConcurrent ]

\* canLaunchFork, on the render it closes over.
canLaunchFork_Mutant(closure) == closure.runningCount <= closure.maxConcurrent

canLaunchFork(closure) == closure.runningCount < closure.maxConcurrent

NoResponse == [ok |-> FALSE, data |-> NoData]

\* A launch sequence: the Fork objects it created, the index of the one whose
\* dispatch is next, and where the sequence stands:
\*   "timer"    waiting for its setTimeout (300 / 500 / 600 ms),
\*   "sent"     launchFork awaits api.createFork, request on its way,
\*   "answered" the Gateway has answered, the response is on its way back.
Launch(kind, forks, closure) ==
  [ kind |-> kind, forks |-> forks, i |-> 1, closure |-> closure,
    phase |-> "timer", resp |-> NoResponse ]

\* What follows `await launchFork(...)`: the next stagger timer of a batch or
\* workflow, or the end of the sequence (setMultiForkQueue([]) for a batch).
Continue_Mutant(l) ==
  IF l.kind \in {"batch", "workflow"} /\ l.i < Len(l.forks)
       /\ (l.phase = "answered" => l.resp.ok)
  THEN /\ launches' = (launches \ {l}) \cup
                        {[l EXCEPT !.i = @ + 1, !.phase = "timer", !.resp = NoResponse]}
       /\ UNCHANGED multiForkQueue
  ELSE /\ launches' = launches \ {l}
       /\ multiForkQueue' = IF l.kind = "batch" THEN <<>> ELSE multiForkQueue

Continue(l) ==
  IF l.kind \in {"batch", "workflow"} /\ l.i < Len(l.forks)
  THEN /\ launches' = (launches \ {l}) \cup
                        {[l EXCEPT !.i = @ + 1, !.phase = "timer", !.resp = NoResponse]}
       /\ UNCHANGED multiForkQueue
  ELSE /\ launches' = launches \ {l}
       /\ multiForkQueue' = IF l.kind = "batch" THEN <<>> ELSE multiForkQueue

\* launchSingleFork
launchSingleFork(agent, tier, prompt, includeSummary) ==
  IF Trim(prompt) = ""
  THEN UNCHANGED vars
  ELSE LET fork == createLocalFork(forkIdCounter, agent, tier, prompt,
                                   includeSummary, NoWorkflow)
       IN /\ forkIdCounter' = forkIdCounter + 1
          /\ localForks' = <<fork>> \o localForks
          /\ launches' = launches \cup {Launch("single", <<fork>>, Closure)}
          /\ UNCHANGED <<multiForkQueue, terminalOutput, maxConcurrent,
                         terminates, apiForks, fetches, fetchCount, remote, chanVars, now>>
          /\ Render

\* retryFork
retryFork_Mutant(fork) ==
  LET newFork == createLocalFork(forkIdCounter, fork.agent, fork.modelTier,
                                 fork.task, fork.includeSummary, NoWorkflow)
  IN /\ forkIdCounter' = forkIdCounter + 1
     /\ localForks' = <<newFork>> \o localForks
     /\ launches' = launches \cup {Launch("retry", <<newFork>>, Closure)}
     /\ UNCHANGED <<multiForkQueue, terminalOutput, maxConcurrent,
                    terminates, apiForks, fetches, fetchCount, remote, chanVars, now>>
     /\ Render

retryFork(fork) ==
  LET newFork == createLocalFork(forkIdCounter, fork.agent, fork.modelTier,
                                 fork.task, fork.includeSummary, fork.workflowId)
  IN /\ forkIdCounter' = forkIdCounter + 1
     /\ localForks' = <<newFork>> \o localForks
     /\ launches' = launches \cup {Launch("retry", <<newFork>>, Closure)}
     /\ UNCHANGED <<multiForkQueue, terminalOutput, maxConcurrent,
                    terminates, apiForks, fetches, fetchCount, remote, chanVars, now>>
     /\ Render

\* launchMultiFork
launchMultiFork_Mutant ==
  IF Len(multiForkQueue) = 0
  THEN UNCHANGED vars
  ELSE LET newForks ==
             [k \in DOMAIN multiForkQueue |->
                createLocalFork(forkIdCounter + k - 1, multiForkQueue[k].agent,
                                multiForkQueue[k].modelTier, multiForkQueue[k].prompt,
                                multiForkQueue[k].includeSummary, NoWorkflow)]
       IN /\ terminalOutput' =
               addTerminalLine(terminalOutput, "workflow",
                 "Launching " \o ToString(Len(multiForkQueue)) \o " forks in sequence...")
          /\ forkIdCounter' = forkIdCounter + Len(newForks)
          /\ localForks' = newForks \o localForks
          /\ launches' = launches \cup {Launch("batch", newForks, Closure)}
          /\ multiForkQueue' = <<>>
          /\ UNCHANGED <<maxConcurrent, terminates, apiForks,
                         fetches, fetchCount, remote, chanVars, now>>
          /\ Render

launchMultiFork ==
  IF Len(multiForkQueue) = 0
  THEN UNCHANGED vars
  ELSE LET newForks ==
             [k \in DOMAIN multiForkQueue |->
                createLocalFork(forkIdCounter + k - 1, multiForkQueue[k].agent,
                                multiForkQueue[k].modelTier, multiForkQueue[k].prompt,
                                multiForkQueue[k].includeSummary, NoWorkflow)]
       IN /\ terminalOutput' =
               addTerminalLine(terminalOutput, "workflow",
                 "Launching " \o ToString(Len(multiForkQueue)) \o " forks in sequence...")
          /\ forkIdCounter' = forkIdCounter + Len(newForks)
          /\ localForks' = newForks \o localForks
          /\ launches' = launches \cup {Launch("batch", newForks, Closure)}
          /\ UNCHANGED <<multiForkQueue, maxConcurrent, terminates, apiForks,
                         fetches, fetchCount, remote, chanVars, now>>
          /\ Render

\* launchWorkflow
launchWorkflow_Mutant(workflow) ==
  LET newForks ==
        [k \in DOMAIN workflow.forks |->
           createLocalFork(forkIdCounter + k - 1, workflow.forks[k].agent,
                           workflow.forks[k].modelTier, workflow.forks[k].prompt,
                           FALSE, workflow.id)]
  IN /\ terminalOutput' =
          addTerminalLine(terminalOutput, "workflow",
                          "Launching workflow: " \o workflow.name)
     /\ forkIdCounter' = forkIdCounter + Len(newForks)
     /\ localForks' = newForks \o localForks
     /\ launches' = launches \cup
          {Launch("workflow",
                  [k \in DOMAIN newForks |-> newForks[Len(newForks) + 1 - k]],
                  Closure)}
     /\ UNCHANGED <<multiForkQueue, maxConcurrent, terminates, apiForks,
                    fetches, fetchCount, remote, chanVars, now>>
     /\ Render

launchWorkflow(workflow) ==
  LET newForks ==
        [k \in DOMAIN workflow.forks |->
           createLocalFork(forkIdCounter + k - 1, workflow.forks[k].agent,
                           workflow.forks[k].modelTier, workflow.forks[k].prompt,
                           FALSE, workflow.id)]
  IN /\ terminalOutput' =
          addTerminalLine(terminalOutput, "workflow",
                          "Launching workflow: " \o workflow.name)
     /\ forkIdCounter' = forkIdCounter + Len(newForks)
     /\ localForks' = newForks \o localForks
     /\ launches' = launches \cup {Launch("workflow", newForks, Closure)}
     /\ UNCHANGED <<multiForkQueue, maxConcurrent, terminates, apiForks,
                    fetches, fetchCount, remote, chanVars, now>>
     /\ Render

\* launchFork up to its await: the admission check against the closure, the
\* write of `spawning`, the two activity lines and the create request.
launchFork_Mutant(l) ==
  LET fork == l.forks[l.i] IN
  /\ l.phase = "timer"
  /\ IF ~canLaunchFork(l.closure)
     THEN /\ terminalOutput' =
               addTerminalLine(terminalOutput, "warning",
                 "Max concurrent forks (" \o ToString(l.closure.maxConcurrent)
                   \o ") reached. Waiting...")
          /\ Continue(l)
          /\ UNCHANGED localForks
     ELSE /\ localForks' =
               [ix \in DOMAIN localForks |-> LET f == localForks[ix] IN
                 IF f.id = fork.id
                 THEN [f EXCEPT !.startedAt = now]
                 ELSE f]
          /\ terminalOutput' =
               addTerminalLine(
                 addTerminalLine(terminalOutput, "spawn",
                   "Spawning " \o AgentName(fork.agent) \o " [" \o fork.model \o "]..."),
                 "info", TaskPreview(fork.task))
          /\ launches' = (launches \ {l}) \cup {[l EXCEPT !.phase = "sent"]}
          /\ UNCHANGED multiForkQueue
  /\ UNCHANGED <<forkIdCounter, maxConcurrent, terminates, apiForks, fetches,
                 fetchCount, remote, chanVars, now>>
  /\ Render

launchFork(l) ==
  LET fork == l.forks[l.i] IN
  /\ l.phase = "timer"
  /\ IF ~canLaunchFork(l.closure)
     THEN /\ terminalOutput' =
               addTerminalLine(terminalOutput, "warning",
                 "Max concurrent forks (" \o ToString(l.closure.maxConcurrent)
                   \o ") reached. Waiting...")
          /\ Continue(l)
          /\ UNCHANGED localForks
     ELSE /\ localForks' =
               [ix \in DOMAIN localForks |-> LET f == localForks[ix] IN
                 IF f.id = fork.id
                 THEN [f EXCEPT !.status = "spawning", !.startedAt = now]
                 ELSE f]
          /\ terminalOutput' =
               addTerminalLine(
                 addTerminalLine(terminalOutput, "spawn",
                   "Spawning " \o AgentName(fork.agent) \o " [" \o fork.model \o "]..."),
                 "info", TaskPreview(fork.task))
          /\ launches' = (launches \ {l}) \cup {[l EXCEPT !.phase = "sent"]}
          /\ UNCHANGED multiForkQueue
  /\ UNCHANGED <<forkIdCounter, maxConcurrent, terminates, apiForks, fetches,
                 fetchCount, remote, chanVars, now>>
  /\ Render

----------------------------------------------------------------------------
(* Gateway (environment): POST /forks and DELETE /forks/{id}. *)

\* Process ids the Gateway may report; a handle may also come without one.
GatewayPids == {4242}

\* The Fork the Gateway creates for a create request: the n-th id it issues.
GatewayFork(n, fork, pid) ==
  [ id |-> RemoteId(n),
    agent |-> fork.agent,
    model |-> fork.model,
    modelTier |-> fork.modelTier,
    status |-> "running",
    task |-> fork.task,
    startedAt |-> now,
    completedAt |-> Unset,
    duration |-> Unset,
    progress |-> 0,
    pid |-> pid,
    output |-> <<>>,
    includeSummary |-> fork.includeSummary,
    workflowId |-> NoWorkflow ]

\* The Gateway handles the create request of launch l: it creates the fork and
\* answers with it, or the call fails (transport error, non-2xx, no data).
GatewayCreate(l) ==
  /\ l.phase = "sent"
  /\ \/ \E pid \in GatewayPids \cup {Unset} :
          LET data == GatewayFork(Len(remote) + 1, l.forks[l.i], pid) IN
          /\ remote' = Append(remote, data)
          /\ launches' = (launches \ {l}) \cup
                {[l EXCEPT !.phase = "answered", !.resp = [ok |-> TRUE, data |-> data]]}
     \/ /\ launches' = (launches \ {l}) \cup
                {[l EXCEPT !.phase = "answered", !.resp = NoResponse]}
        /\ UNCHANGED remote
  /\ UNCHANGED <<localForks, forkIdCounter, multiForkQueue, terminalOutput,
                 maxConcurrent, terminates, apiForks, fetches, fetchCount, chanVars, stats, now>>

\* useForks.createFork after its await: the new fork is put first.
createFork(forks, resp) ==
  IF resp.ok THEN <<resp.data>> \o forks ELSE forks

\* result.pid || Math.floor(Math.random() * 90000) + 10000
PidOrRandom(pid) == IF pid # Unset /\ pid # 0 THEN {pid} ELSE RandomPids

\* `[PID: ${result.pid || 'N/A'}]`
PidText(pid) == IF pid # Unset /\ pid # 0 THEN ToString(pid) ELSE "N/A"

\* launchFork, success branch: the record still carrying the placeholder id
\* takes the Gateway's id and becomes running.
ApplyCreated_Mutant(forks, placeholder, result, pid) ==
  [ix \in DOMAIN forks |-> LET f == forks[ix] IN
    IF f.id = placeholder
    THEN [result EXCEPT !.status = "running", !.progress = 5, !.pid = pid]
    ELSE f]

ApplyCreated(forks, placeholder, result, pid) ==
  [ix \in DOMAIN forks |-> LET f == forks[ix] IN
    IF f.id = placeholder
    THEN [f EXCEPT !.id = result.id, !.status = "running", !.progress = 5,
                   !.pid = pid]
    ELSE f]

\* launchFork, failure branch.
ApplyCreateFailed_Mutant(forks, placeholder) ==
  [ix \in DOMAIN forks |-> LET f == forks[ix] IN
    IF f.id = placeholder THEN [f EXCEPT !.status = "queued"] ELSE f]

ApplyCreateFailed(forks, placeholder) ==
  [ix \in DOMAIN forks |-> LET f == forks[ix] IN
    IF f.id = placeholder THEN [f EXCEPT !.status = "failed"] ELSE f]

\* The create response arrives: createFork resolves, launchFork resumes after
\* its await, and the launch sequence goes on.  (The activity texts are given
\* without their leading check mark and cross glyphs.)
CreateResolve(l) ==
  LET fork == l.forks[l.i] IN
  /\ l.phase = "answered"
  /\ apiForks' = createFork(apiForks, l.resp)
  /\ IF l.resp.ok
     THEN /\ \E pid \in PidOrRandom(l.resp.data.pid) :
               localForks' = ApplyCreated(localForks, fork.id, l.resp.data, pid)
          /\ terminalOutput' =
               addTerminalLine(terminalOutput, "success",
                 "Fork #" \o l.resp.data.id \o " launched [PID: "
                   \o PidText(l.resp.data.pid) \o "]")
     ELSE /\ localForks' = ApplyCreateFailed(localForks, fork.id)
          /\ terminalOutput' =
               addTerminalLine(terminalOutput, "error", "Failed to launch fork")
  /\ Continue(l)
  /\ UNCHANGED <<forkIdCounter, maxConcurrent, terminates, fetches, fetchCount,
                 remote, chanVars, now>>
  /\ Render

----------------------------------------------------------------------------
(* Cancel, clear history. *)

\* cancelFork up to its await: terminateFork(forkId) issues DELETE /forks/{id}.
cancelFork(forkId) ==
  /\ forkId \notin terminates
  /\ terminates' = terminates \cup {forkId}
  /\ UNCHANGED <<localForks, forkIdCounter, multiForkQueue, terminalOutput,
                 maxConcurrent, launches, apiForks, fetches, fetchCount, remote, chanVars, stats, now>>

\* useForks.terminateFork after its await.
terminateFork(forks, id, ok) ==
  IF ok
  THEN [ix \in DOMAIN forks |-> LET f == forks[ix] IN
         IF f.id = id THEN [f EXCEPT !.status = "terminated"] ELSE f]
  ELSE forks

\* cancelFork after its await: the local write.
MarkCancelled(forks, forkId) ==
  [ix \in DOMAIN forks |-> LET f == forks[ix] IN
    IF f.id = forkId /\ f.status \in {"running", "queued", "spawning"}
    THEN [f EXCEPT !.status = "cancelled", !.completedAt = now]
    ELSE f]

\* The Gateway terminates a fork it is still running; DELETE for any other id,
\* or a transport error, fails.
GatewayTerminate(forks, id, ok) ==
  IF ok
  THEN [ix \in DOMAIN forks |-> LET f == forks[ix] IN
         IF f.id = id THEN [f EXCEPT !.status = "terminated"] ELSE f]
  ELSE forks

CanTerminate(id) ==
  \E k \in DOMAIN remote : remote[k].id = id /\ remote[k].status = "running"

\* The DELETE is answered: terminateFork resolves and cancelFork resumes.
TerminateResolve(forkId) ==
  /\ forkId \in terminates
  /\ \E ok \in {FALSE} \cup (IF CanTerminate(forkId) THEN {TRUE} ELSE {}) :
       /\ remote' = GatewayTerminate(remote, forkId, ok)
       /\ apiForks' = terminateFork(apiForks, forkId, ok)
  /\ localForks' = MarkCancelled(localForks, forkId)
  /\ terminalOutput' =
       addTerminalLine(terminalOutput, "warning", "Fork #" \o forkId \o " cancelled")
  /\ terminates' = terminates \ {forkId}
  /\ UNCHANGED <<forkIdCounter, multiForkQueue, maxConcurrent, launches,
                 fetches, fetchCount, chanVars, now>>
  /\ Render

\* clearHistory
clearHistory ==
  /\ localForks' =
       SelectSeq(localForks, LAMBDA f : f.status \in {"running", "spawning", "queued"})
  /\ terminalOutput' = addTerminalLine(terminalOutput, "system", "Fork history cleared")
  /\ UNCHANGED <<forkIdCounter, multiForkQueue, maxConcurrent, launches,
                 terminates, apiForks, fetches, fetchCount, remote, chanVars, now>>
  /\ Render

----------------------------------------------------------------------------
(* Progress simulation (the 1500 ms interval) and the completion effect. *)

\* One fork's random draws in a tick: the increment, the canned line appended
\* (0: Math.random() > 0.7 was false) and Math.random() > 0.1 (success).
TickDraws == Increments \X (0..OutputChoices) \X BOOLEAN

\* The draws that make a difference for this fork (the others repeat them).
DrawFits(fork, d) ==
  /\ d[2] <= Len(OutputLines(fork.agent))
  /\ Len(fork.output) >= MaxOutput => d[2] = 0
  /\ fork.progress + d[1] < 100 => d[3]

\* The body of the interval's map callback.
SimulateFork_Uncapped(fork, d) ==
  IF fork.status = "running" /\ fork.progress < 100
  THEN LET newProgress == fork.progress + d[1]
           newOutput == IF d[2] > 0
                        THEN Append(fork.output,
                                    Line(now, OutputLines(fork.agent)[d[2]]))
                        ELSE fork.output
       IN IF newProgress >= 100
          THEN [fork EXCEPT !.progress = newProgress,
                            !.status = IF d[3] THEN "completed" ELSE "failed",
                            !.completedAt = now,
                            !.duration = now - fork.startedAt,
                            !.output = newOutput]
          ELSE [fork EXCEPT !.progress = newProgress, !.output = newOutput]
  ELSE fork

SimulateFork_Stuck(fork, d) ==
  IF fork.status = "running" /\ fork.progress < 100
  THEN LET newProgress == Min(99, fork.progress + d[1])
           newOutput == IF d[2] > 0
                        THEN Append(fork.output,
                                    Line(now, OutputLines(fork.agent)[d[2]]))
                        ELSE fork.output
       IN IF newProgress >= 100
          THEN [fork EXCEPT !.progress = 100,
                            !.status = IF d[3] THEN "completed" ELSE "failed",
                            !.completedAt = now,
                            !.duration = now - fork.startedAt,
                            !.output = newOutput]
          ELSE [fork EXCEPT !.progress = newProgress, !.output = newOutput]
  ELSE fork

SimulateFork_Mutant(fork, d) ==
  IF fork.status = "running" /\ fork.progress < 100
  THEN LET newProgress == Min(100, fork.progress + d[1])
           newOutput == IF d[2] > 0
                        THEN Append(fork.output,
                                    Line(now, OutputLines(fork.agent)[d[2]]))
                        ELSE fork.output
       IN IF newProgress >= 100
          THEN [fork EXCEPT !.progress = 100,
                            !.status = IF d[3] THEN "completed" ELSE "failed",
                            !.completedAt = now,
                            !.duration = now,
                            !.output = newOutput]
          ELSE [fork EXCEPT !.progress = newProgress, !.output = newOutput]
  ELSE fork

SimulateFork(fork, d) ==
  IF fork.status = "running" /\ fork.progress < 100
  THEN LET newProgress == Min(100, fork.progress + d[1])
           newOutput == IF d[2] > 0
                        THEN Append(fork.output,
                                    Line(now, OutputLines(fork.agent)[d[2]]))
                        ELSE fork.output
       IN IF newProgress >= 100
          THEN [fork EXCEPT !.progress = 100,
                            !.status = IF d[3] THEN "completed" ELSE "failed",
                            !.completedAt = now,
                            !.duration = now - fork.startedAt,
                            !.output = newOutput]
          ELSE [fork EXCEPT !.progress = newProgress, !.output = newOutput]
  ELSE fork

\* The effect on [localForks]: a line for every fork the previous render
\* showed running and this one shows completed or failed.
RECURSIVE NotifyCompletions(_, _, _, _)
NotifyCompletions(log, prev, cur, k) ==
  IF k > Len(cur) THEN log
  ELSE LET fork == cur[k]
           wasRunning == HasId(prev, fork.id)
                           /\ FindFork(prev, fork.id).status = "running"
       IN NotifyCompletions(
            IF wasRunning /\ fork.status = "completed"
            THEN addTerminalLine(log, "success", "Fork #" \o fork.id \o " completed")
            ELSE IF wasRunning /\ fork.status = "failed"
            THEN addTerminalLine(log, "error", "Fork #" \o fork.id \o " failed")
            ELSE log,
            prev, cur, k + 1)

Simulated == {k \in DOMAIN localForks :
                localForks[k].status = "running" /\ localForks[k].progress < 100}

\* One firing of the interval while some fork is running.
ProgressTick ==
  /\ Simulated # {}
  /\ \E draw \in [Simulated -> TickDraws] :
       /\ \A k \in Simulated : DrawFits(localForks[k], draw[k])
       /\ localForks' = [k \in DOMAIN localForks |->
                          IF k \in Simulated
                          THEN SimulateFork(localForks[k], draw[k])
                          ELSE localForks[k]]
  /\ terminalOutput' = NotifyCompletions(terminalOutput, localForks, localForks', 1)
  /\ UNCHANGED <<forkIdCounter, multiForkQueue, maxConcurrent, launches,
                 terminates, apiForks, fetches, fetchCount, remote, chanVars, now>>
  /\ Render

----------------------------------------------------------------------------
(* Batch queue. *)

\* addToQueue
addToQueue_Mutant(agent, tier, prompt, includeSummary) ==
  IF prompt = ""
  THEN UNCHANGED vars
  ELSE /\ multiForkQueue' =
            Append(multiForkQueue,
                   [ id |-> now, agent |-> agent, modelTier |-> tier,
                     prompt |-> prompt, includeSummary |-> includeSummary ])
       /\ UNCHANGED <<localForks, forkIdCounter, terminalOutput, maxConcurrent,
                      launches, terminates, apiForks, fetches, fetchCount,
                      remote, chanVars, stats, now>>

addToQueue(agent, tier, prompt, includeSummary) ==
  IF Trim(prompt) = ""
  THEN UNCHANGED vars
  ELSE /\ multiForkQueue' =
            Append(multiForkQueue,
                   [ id |-> now, agent |-> agent, modelTier |-> tier,
                     prompt |-> prompt, includeSummary |-> includeSummary ])
       /\ UNCHANGED <<localForks, forkIdCounter, terminalOutput, maxConcurrent,
                      launches, terminates, apiForks, fetches, fetchCount,
                      remote, chanVars, stats, now>>

\* removeFromQueue
removeFromQueue(id) ==
  /\ multiForkQueue' = SelectSeq(multiForkQueue, LAMBDA item : item.id # id)
  /\ UNCHANGED <<localForks, forkIdCounter, terminalOutput, maxConcurrent,
                 launches, terminates, apiForks, fetches, fetchCount, remote, chanVars, stats, now>>

\* clearQueue
clearQueue ==
  /\ multiForkQueue' = <<>>
  /\ UNCHANGED <<localForks, forkIdCounter, terminalOutput, maxConcurrent,
                 launches, terminates, apiForks, fetches, fetchCount, remote, chanVars, stats, now>>

----------------------------------------------------------------------------
(* useForks: the list request and the handlers of the push events. *)

\* fetchForks up to its await: GET /forks is on its way.
fetchForks ==
  /\ fetchCount' = fetchCount + 1
  /\ fetches' = fetches \cup
       {[n |-> fetchCount + 1, phase |-> "sent", ok |-> FALSE, data |-> <<>>]}
  /\ UNCHANGED <<localForks, forkIdCounter, multiForkQueue, terminalOutput,
                 maxConcurrent, launches, terminates, apiForks, remote,
                 chanVars, stats, now>>

\* The Gateway answers a list request with the forks it holds at that moment,
\* or the call fails.
GatewayList(f) ==
  /\ f.phase = "sent"
  /\ \E ok \in BOOLEAN :
       fetches' = (fetches \ {f}) \cup
         {[f EXCEPT !.phase = "answered", !.ok = ok,
                    !.data = IF ok THEN remote ELSE <<>>]}
  /\ UNCHANGED <<localForks, forkIdCounter, multiForkQueue, terminalOutput,
                 maxConcurrent, launches, terminates, apiForks, fetchCount,
                 remote, chanVars, stats, now>>

\* fetchForks after its await: setForks(result.data) on success.
FetchResolve(f) ==
  /\ f.phase = "answered"
  /\ apiForks' = IF f.ok THEN f.data ELSE apiForks
  /\ fetches' = fetches \ {f}
  /\ UNCHANGED <<localForks, forkIdCounter, multiForkQueue, terminalOutput,
                 maxConcurrent, launches, terminates, fetchCount, remote,
                 chanVars, now>>
  /\ Render

\* A wire message { type, data }.
Message(type, data) == [type |-> type, data |-> data]

\* on('fork_update'): the record with the message's id is replaced by it.
onForkUpdate(forks, updatedFork) ==
  [ix \in DOMAIN forks |-> LET f == forks[ix] IN IF f.id = updatedFork.id THEN updatedFork ELSE f]

\* on('fork_output'): { time: new Date(), text: output } is appended.
onForkOutput_Mutant(forks, data) ==
  [ix \in DOMAIN forks |-> LET f == forks[ix] IN
    IF f.id = data.forkId
    THEN [f EXCEPT !.output = <<Line(now, data.output)>> \o @]
    ELSE f]

onForkOutput(forks, data) ==
  [ix \in DOMAIN forks |-> LET f == forks[ix] IN
    IF f.id = data.forkId
    THEN [f EXCEPT !.output = Append(@, Line(now, data.output))]
    ELSE f]

\* on('fork_completed')
onForkCompleted(forks, data) ==
  [ix \in DOMAIN forks |-> LET f == forks[ix] IN
    IF f.id = data.forkId
    THEN [f EXCEPT !.status = "completed", !.progress = 100, !.completedAt = now]
    ELSE f]

\* on('fork_failed')
onForkFailed(forks, data) ==
  [ix \in DOMAIN forks |-> LET f == forks[ix] IN
    IF f.id = data.forkId
    THEN [f EXCEPT !.status = "failed",
                   !.output = Append(@, Line(now, "Error: " \o data.error))]
    ELSE f]

\* ForkWebSocket.emit(message.type, message) with the four listeners useForks
\* registers; a type without listener changes nothing.
emit(forks, message) ==
  CASE message.type = "fork_update" -> onForkUpdate(forks, message.data)
    [] message.type = "fork_output" -> onForkOutput(forks, message.data)
    [] message.type = "fork_completed" -> onForkCompleted(forks, message.data)
    [] message.type = "fork_failed" -> onForkFailed(forks, message.data)
    [] OTHER -> forks

\* A frame on the wire is given by what JSON.parse makes of its text: a
\* frame with a `text` field holds text that JSON.parse rejects, NullFrame
\* holds "null", a record of other fields is the object parsed, and a
\* Message is a well-formed event.
NullFrame == [null |-> TRUE]

\* JSON.parse(event.data) throws a SyntaxError.
ParseThrows(frame) == "text" \in DOMAIN frame

\* message.type throws a TypeError (message is null).
TypeThrows(frame) == frame = NullFrame

\* message.type is undefined: emit finds no listener set.
TypeUndefined(frame) == "type" \notin DOMAIN frame

\* The hook's list after ws.onmessage has handled the frame: the catch block
\* swallows what JSON.parse or message.type throws, and emit calls the
\* listeners of message.type, if any.
Received_Mutant(forks, frame) ==
  IF ParseThrows(frame) \/ TypeThrows(frame) THEN <<>>
  ELSE IF TypeUndefined(frame) THEN forks
  ELSE emit(forks, frame)

Received(forks, frame) ==
  IF ParseThrows(frame) \/ TypeThrows(frame) THEN forks
  ELSE IF TypeUndefined(frame) THEN forks
  ELSE emit(forks, frame)

\* The callback useForks registers for an event (one arrow function each).
HookHandler == "useForks"

\* this.listeners once the effect of useForks has made its four on() calls.
HookListeners ==
  [t \in {"fork_update", "fork_output", "fork_completed", "fork_failed"} |->
     <<HookHandler>>]

\* on(event, callback): Set.add keeps a callback that is in the set at its
\* place and puts a new one last.
on(ls, event, callback) ==
  IF \E n \in DOMAIN ls[event] : ls[event][n] = callback THEN ls
  ELSE [ls EXCEPT ![event] = Append(@, callback)]

\* The function on() returns: Set.delete.
unsubscribe(ls, event, callback) ==
  [ls EXCEPT ![event] = SelectSeq(@, LAMBDA h : h # callback)]

\* The callback throws on the message: those of useForks for fork_output,
\* fork_completed and fork_failed destructure message.data, a TypeError when
\* the message carries no data.  Other subscribers do not throw.
CallbackThrows(callback, message) ==
  /\ callback = HookHandler
  /\ message.type \in {"fork_output", "fork_completed", "fork_failed"}
  /\ "data" \notin DOMAIN message

\* emit: forEach calls the callbacks in the Set's order, and the first one
\* that throws ends the loop.  The callbacks it has called:
RECURSIVE Called(_, _)
Called(callbacks, message) ==
  IF callbacks = <<>> THEN <<>>
  ELSE IF CallbackThrows(Head(callbacks), message) THEN <<Head(callbacks)>>
  ELSE <<Head(callbacks)>> \o Called(Tail(callbacks), message)

\* this.listeners.get(message.type) for the frame ws.onmessage has parsed:
\* nothing when the parse or message.type throws, or no on() named the type.
CallbacksFor(ls, frame) ==
  IF \/ ParseThrows(frame) \/ TypeThrows(frame) \/ TypeUndefined(frame)
     \/ frame.type \notin DOMAIN ls
  THEN <<>>
  ELSE ls[frame.type]

\* ws.onmessage for the oldest frame in flight.  The list of useForks changes
\* when its callback is among those called and does not throw.
onmessage ==
  LET frame == Head(channel)
      called == Called(CallbacksFor(listeners, frame), frame)
      thrown == called # <<>> /\ CallbackThrows(called[Len(called)], frame)
      noEmit == ParseThrows(frame) \/ TypeThrows(frame) \/ TypeUndefined(frame)
  IN
  /\ channel # <<>>
  /\ \E i \in DOMAIN sockets : sockets[i] = "open"
  /\ calls' = called
  /\ apiForks' =
       IF noEmit \/ (~thrown /\ \E n \in DOMAIN called : called[n] = HookHandler)
       THEN Received(apiForks, frame)
       ELSE apiForks
  /\ consoleErrors' =
       IF ParseThrows(frame) \/ TypeThrows(frame) \/ thrown
       THEN consoleErrors + 1 ELSE consoleErrors
  /\ channel' = Tail(channel)
  /\ UNCHANGED <<localForks, forkIdCounter, multiForkQueue, terminalOutput,
                 maxConcurrent, launches, terminates, fetches, fetchCount,
                 remote, sockets, ws, reconnectAttempts, reconnectTimers,
                 disconnected, listeners, now>>
  /\ Render

----------------------------------------------------------------------------
(* Gateway (environment): the forks it runs and the events it pushes. *)

\* Messages the channel may hold in flight.
MaxMessages == 2
\* Progress a fork reports on the Gateway before it ends.
RemoteProgressStep == 50

RemoteLines == <<"done">>
RemoteErrors == <<"exit 1">>

\* The Gateway changes the fork at index k and pushes a message about it.
RemoteStep(k, fork, message) ==
  /\ k \in DOMAIN remote
  /\ remote[k].status = "running"
  /\ Len(channel) < MaxMessages
  /\ remote' = [remote EXCEPT ![k] = fork]
  /\ channel' = Append(channel, message)
  /\ UNCHANGED <<localForks, forkIdCounter, multiForkQueue, terminalOutput,
                 maxConcurrent, launches, terminates, apiForks, fetches,
                 fetchCount, sockets, ws, reconnectAttempts, reconnectTimers,
                 disconnected, consoleErrors, listeners, calls, stats, now>>

\* The fork prints a line: fork_output { forkId, output }.
RemoteOutput(k) ==
  /\ k \in DOMAIN remote
  /\ \E n \in DOMAIN RemoteLines :
       RemoteStep(k,
         [remote[k] EXCEPT !.output = Append(@, Line(Unset, RemoteLines[n]))],
         Message("fork_output",
                 [forkId |-> remote[k].id, output |-> RemoteLines[n]]))

\* The fork reports progress: fork_update with the Gateway's record.
RemoteUpdate(k) ==
  /\ k \in DOMAIN remote
  /\ remote[k].progress < RemoteProgressStep
  /\ LET fork == [remote[k] EXCEPT !.progress = RemoteProgressStep]
     IN RemoteStep(k, fork, Message("fork_update", fork))

\* The fork ends well: fork_completed { forkId }.
RemoteCompleted(k) ==
  /\ k \in DOMAIN remote
  /\ RemoteStep(k,
       [remote[k] EXCEPT !.status = "completed", !.progress = 100,
                         !.completedAt = now],
       Message("fork_completed", [forkId |-> remote[k].id]))

\* The fork ends badly: fork_failed { forkId, error }.
RemoteFailed(k) ==
  /\ k \in DOMAIN remote
  /\ \E n \in DOMAIN RemoteErrors :
       RemoteStep(k,
         [remote[k] EXCEPT !.status = "failed", !.completedAt = now],
         Message("fork_failed",
                 [forkId |-> remote[k].id, error |-> RemoteErrors[n]]))

----------------------------------------------------------------------------
(* ForkWebSocket: connect, reconnect, disconnect. *)

maxReconnectAttempts == 5
reconnectDelay == 1000

RECURSIVE Pow2(_)
Pow2(n) == IF n <= 0 THEN 1 ELSE 2 * Pow2(n - 1)

\* connect(): a new WebSocket replaces this.ws; the socket this.ws held
\* before is neither closed nor detached from its handlers.  (The URL is
\* built from window.location, so the constructor does not throw.)
connect ==
  /\ sockets' = Append(sockets, "connecting")
  /\ ws' = Len(sockets) + 1

\* attemptReconnect(): the state it leaves, as <<reconnectAttempts, timers>>.
attemptReconnect_Mutant(attempts, timers) ==
  IF attempts <= maxReconnectAttempts
  THEN <<attempts + 1, Append(timers, reconnectDelay * Pow2(attempts))>>
  ELSE <<attempts, timers>>

attemptReconnect(attempts, timers) ==
  IF attempts < maxReconnectAttempts
  THEN <<attempts + 1, Append(timers, reconnectDelay * Pow2(attempts))>>
  ELSE <<attempts, timers>>

\* ws.onopen of socket i.
onopen(i) ==
  /\ sockets[i] = "connecting"
  /\ sockets' = [sockets EXCEPT ![i] = "open"]
  /\ reconnectAttempts' = 0
  /\ UNCHANGED <<ws, reconnectTimers, disconnected, channel, consoleErrors,
                 listeners, calls>>

\* ws.onclose of socket i: the connection failed, the peer closed it, or the
\* close() of disconnect() has completed.
onclose(i) ==
  /\ sockets[i] # "closed"
  /\ sockets' = [sockets EXCEPT ![i] = "closed"]
  /\ reconnectAttempts' = attemptReconnect(reconnectAttempts, reconnectTimers)[1]
  /\ reconnectTimers' = attemptReconnect(reconnectAttempts, reconnectTimers)[2]
  /\ UNCHANGED <<ws, disconnected, channel, consoleErrors, listeners, calls>>

\* The k-th pending reconnect timer fires: () => this.connect().
ReconnectTimer(k) ==
  /\ k \in DOMAIN reconnectTimers
  /\ connect
  /\ reconnectTimers' =
       SubSeq(reconnectTimers, 1, k - 1)
         \o SubSeq(reconnectTimers, k + 1, Len(reconnectTimers))
  /\ UNCHANGED <<reconnectAttempts, disconnected, channel, consoleErrors,
                 listeners, calls>>

\* disconnect(): this.ws.close() starts the closing handshake (the close
\* event follows later), and this.ws becomes null.
disconnect ==
  /\ IF ws # 0
     THEN /\ sockets' = [sockets EXCEPT
                           ![ws] = IF @ \in {"connecting", "open"} THEN "closing" ELSE @]
          /\ ws' = 0
     ELSE UNCHANGED <<sockets, ws>>
  /\ UNCHANGED <<reconnectAttempts, reconnectTimers, channel, consoleErrors, calls>>

----------------------------------------------------------------------------
(* The scheduler's specification. *)

\* The launch panel's selections (agent, tier, includeSummary) in use.
Selections == {<<"claude", "default", FALSE>>}

\* The settings in use: two of the select's options.
MaxConcurrentInUse == {1, 3}

Init ==
  /\ localForks = <<>>
  /\ forkIdCounter = 1
  /\ multiForkQueue = <<>>
  /\ terminalOutput = InitialTerminalOutput
  /\ maxConcurrent \in MaxConcurrentInUse
  /\ launches = {}
  /\ terminates = {}
  /\ apiForks = <<>>
  /\ fetches = {[n |-> 1, phase |-> "sent", ok |-> FALSE, data |-> <<>>]}
  /\ fetchCount = 1
  /\ remote = <<>>
  /\ channel = <<>>
  /\ sockets = <<"connecting">>
  /\ ws = 1
  /\ reconnectAttempts = 0
  /\ reconnectTimers = <<>>
  /\ disconnected = FALSE
  /\ consoleErrors = 0
  /\ listeners = HookListeners
  /\ calls = <<>>
  /\ stats = InitialStats
  /\ now = 0

ForkIds(forks) == {forks[k].id : k \in DOMAIN forks}

\* The activity log stays within the model's bound after the step.
LogFits == Len(terminalOutput') <= MaxLog

LaunchSingle ==
  /\ forkIdCounter <= MaxForks
  /\ \E sel \in Selections, prompt \in Prompts :
       launchSingleFork(sel[1], sel[2], prompt, sel[3])

\* The inspector offers retry for a fork shown failed or cancelled.
Retry ==
  /\ forkIdCounter <= MaxForks
  /\ \E k \in DOMAIN allForks :
       /\ allForks[k].status \in {"failed", "cancelled"}
       /\ retryFork(allForks[k])

LaunchBatch ==
  /\ forkIdCounter + Len(multiForkQueue) - 1 <= MaxForks
  /\ launchMultiFork
  /\ LogFits

\* A pending setTimeout fires.  The clock is not advanced between calls, so
\* the timers of different launch sequences fire in any order.
Dispatch == \E l \in launches : launchFork(l) /\ LogFits

GatewayCreates == \E l \in launches : GatewayCreate(l)

CreateResolves == \E l \in launches : CreateResolve(l) /\ LogFits

\* The fork card and the inspector offer cancel for a fork shown spawning or
\* running.
Cancel ==
  \E k \in DOMAIN allForks :
    /\ allForks[k].status \in {"running", "spawning"}
    /\ cancelFork(allForks[k].id)

TerminateResolves == \E id \in terminates : TerminateResolve(id) /\ LogFits

ClearHistory == clearHistory /\ LogFits

Tick == ProgressTick /\ LogFits

Enqueue ==
  /\ Len(multiForkQueue) < MaxQueue
  /\ \E sel \in Selections, prompt \in Prompts :
       addToQueue(sel[1], sel[2], prompt, sel[3])

Dequeue == \E k \in DOMAIN multiForkQueue : removeFromQueue(multiForkQueue[k].id)

ClearQueue == multiForkQueue # <<>> /\ clearQueue

\* Single launches, retries, cancels and clearHistory.
LaunchNext ==
  \/ LaunchSingle
  \/ Retry
  \/ Dispatch
  \/ GatewayCreates
  \/ CreateResolves
  \/ Cancel
  \/ TerminateResolves
  \/ ClearHistory

SpecLaunch == Init /\ [][LaunchNext]_vars

\* The same next to the progress simulation.
Next ==
  \/ LaunchNext
  \/ Tick

Spec == Init /\ [][Next]_vars

\* The batch queue and its staggered launch next to single launches.
BatchNext ==
  \/ Enqueue
  \/ Dequeue
  \/ ClearQueue
  \/ LaunchBatch
  \/ LaunchSingle
  \/ Dispatch
  \/ GatewayCreates
  \/ CreateResolves
  \/ Cancel
  \/ TerminateResolves

SpecBatch == Init /\ [][BatchNext]_vars

----------------------------------------------------------------------------
(* Reconciliation: one client next to the Gateway's list and push events. *)

\* Forks launched in the reconciliation specification.
MaxReconForks == 1
\* settings.maxConcurrent as initialised.
DefaultMaxConcurrent == 5

\* The page is mounted and the channel has opened: the list request of the
\* mount is on its way, and the Gateway runs no fork yet.
InitRecon ==
  /\ now = 0
  /\ localForks = <<>>
  /\ forkIdCounter = 1
  /\ multiForkQueue = <<>>
  /\ terminalOutput = InitialTerminalOutput
  /\ maxConcurrent = DefaultMaxConcurrent
  /\ launches = {}
  /\ terminates = {}
  /\ apiForks = <<>>
  /\ fetches = {[n |-> 1, phase |-> "sent", ok |-> FALSE, data |-> <<>>]}
  /\ fetchCount = 1
  /\ remote = <<>>
  /\ channel = <<>>
  /\ sockets = <<"open">>
  /\ ws = 1
  /\ reconnectAttempts = 0
  /\ reconnectTimers = <<>>
  /\ disconnected = FALSE
  /\ consoleErrors = 0
  /\ listeners = HookListeners
  /\ calls = <<>>
  /\ stats = InitialStats

ReconLaunch ==
  /\ forkIdCounter <= MaxReconForks
  /\ \E sel \in Selections : launchSingleFork(sel[1], sel[2], "x", sel[3])

GatewayLists == \E f \in fetches : GatewayList(f)

FetchResolves == \E f \in fetches : FetchResolve(f)

RemoteOutputs ==
  \E k \in DOMAIN remote : Len(remote[k].output) < MaxOutput /\ RemoteOutput(k)

RemoteUpdates == \E k \in DOMAIN remote : RemoteUpdate(k)

RemoteCompletes == \E k \in DOMAIN remote : RemoteCompleted(k)

RemoteFails == \E k \in DOMAIN remote : RemoteFailed(k)

ReconNext ==
  \/ ReconLaunch
  \/ Dispatch
  \/ GatewayCreates
  \/ CreateResolves
  \/ Cancel
  \/ TerminateResolves
  \/ ClearHistory
  \/ GatewayLists
  \/ FetchResolves
  \/ RemoteOutputs
  \/ RemoteUpdates
  \/ RemoteCompletes
  \/ RemoteFails
  \/ onmessage

SpecRecon == InitRecon /\ [][ReconNext]_vars

----------------------------------------------------------------------------
(* The channel on its own: the hook mounts and unmounts, sockets open and *)
(* close, reconnect timers fire.                                           *)

\* WebSocket objects created in one run of the channel's specification.
MaxSockets == 6

\* Everything but the ForkWebSocket object.
appVars == <<localForks, forkIdCounter, multiForkQueue, terminalOutput,
             maxConcurrent, launches, terminates, apiForks, fetches,
             fetchCount, remote, stats, now>>

\* The effect of useForks runs again (the component is mounted again).
Mount ==
  /\ disconnected
  /\ Len(sockets) < MaxSockets
  /\ connect
  /\ listeners' = [t \in DOMAIN listeners |-> on(listeners, t, HookHandler)[t]]
  /\ disconnected' = FALSE
  /\ UNCHANGED <<reconnectAttempts, reconnectTimers, channel, consoleErrors,
                 calls, appVars>>

\* The cleanup of the effect of useForks: the four unsubscribe functions,
\* then forkWebSocket.disconnect().
Unmount ==
  /\ ~disconnected
  /\ listeners' =
       [t \in DOMAIN listeners |-> unsubscribe(listeners, t, HookHandler)[t]]
  /\ disconnect
  /\ disconnected' = TRUE
  /\ UNCHANGED appVars

SocketOpens == \E i \in DOMAIN sockets : onopen(i) /\ UNCHANGED appVars

SocketCloses == \E i \in DOMAIN sockets : onclose(i) /\ UNCHANGED appVars

ReconnectFires ==
  /\ Len(sockets) < MaxSockets
  /\ \E k \in DOMAIN reconnectTimers : ReconnectTimer(k) /\ UNCHANGED appVars

ChannelNext ==
  \/ Mount
  \/ Unmount
  \/ SocketOpens
  \/ SocketCloses
  \/ ReconnectFires

SpecChannel == Init /\ [][ChannelNext]_vars

----------------------------------------------------------------------------
(* Workflows: a template is launched and failed forks are retried; the     *)
(* activity log is not bounded here.                                       *)

\* Fork records created in one run of the workflow specification.
MaxWorkflowForks == 4
\* How many of the workflow templates are launched.
WorkflowChoices == 1
\* Single launches made before a workflow is launched.
MaxWorkflowSingles == 1

LaunchWorkflow ==
  \E w \in 1..Min(WorkflowChoices, Len(WORKFLOW_TEMPLATES)) :
    /\ forkIdCounter + Len(WORKFLOW_TEMPLATES[w].forks) - 1 <= MaxWorkflowForks
    /\ launchWorkflow(WORKFLOW_TEMPLATES[w])

WorkflowRetry ==
  /\ forkIdCounter <= MaxWorkflowForks
  /\ \E k \in DOMAIN allForks :
       /\ allForks[k].status \in {"failed", "cancelled"}
       /\ retryFork(allForks[k])

WorkflowDispatch == \E l \in launches : launchFork(l)

WorkflowCreateResolves == \E l \in launches : CreateResolve(l)

WorkflowNext ==
  \/ LaunchWorkflow
  \/ WorkflowRetry
  \/ WorkflowDispatch
  \/ GatewayCreates
  \/ WorkflowCreateResolves

SpecWorkflow == Init /\ [][WorkflowNext]_vars

\* A single launch comes first, so that the workflow is launched while a
\* fork is active.
WorkflowSingle ==
  /\ forkIdCounter <= MaxWorkflowSingles
  /\ \E sel \in Selections : launchSingleFork(sel[1], sel[2], "x", sel[3])

CapacityNext ==
  \/ WorkflowSingle
  \/ WorkflowNext

SpecCapacity == Init /\ [][CapacityNext]_vars

----------------------------------------------------------------------------
(* The batch queue with items that differ, the activity log not bounded.   *)

\* The launch panel's selections when items are added to the queue.
QueueSelections == {<<"claude", "default", FALSE>>, <<"codex", "fast", TRUE>>}

QueueAdd ==
  /\ Len(multiForkQueue) < MaxQueue
  /\ \E sel \in QueueSelections, prompt \in Prompts :
       addToQueue(sel[1], sel[2], prompt, sel[3])

QueueLaunch ==
  /\ forkIdCounter + Len(multiForkQueue) - 1 <= MaxForks
  /\ launchMultiFork

QueueNext ==
  \/ QueueAdd
  \/ Dequeue
  \/ ClearQueue
  \/ QueueLaunch
  \/ WorkflowDispatch
  \/ GatewayCreates
  \/ WorkflowCreateResolves

SpecQueue == Init /\ [][QueueNext]_vars

----------------------------------------------------------------------------
(* One fork's life under a running clock: launch, progress simulation,     *)
(* cancel.                                                                 *)

\* The last tick of the clock.
MaxTime == 2
\* Forks launched while the clock runs.
MaxClockForks == 1

\* Time passes.
AdvanceClock ==
  /\ now < MaxTime
  /\ now' = now + 1
  /\ UNCHANGED <<localForks, forkIdCounter, multiForkQueue, terminalOutput,
                 maxConcurrent, launches, terminates, apiForks, fetches,
                 fetchCount, remote, chanVars, stats>>

ClockLaunch ==
  /\ forkIdCounter <= MaxClockForks
  /\ \E sel \in Selections : launchSingleFork(sel[1], sel[2], "x", sel[3])

ClockTerminateResolves == \E id \in terminates : TerminateResolve(id)

ClockNext ==
  \/ AdvanceClock
  \/ ClockLaunch
  \/ WorkflowDispatch
  \/ GatewayCreates
  \/ WorkflowCreateResolves
  \/ Cancel
  \/ ClockTerminateResolves
  \/ ProgressTick

SpecClock == Init /\ [][ClockNext]_vars

\* The same with what the environment guarantees: the interval keeps firing
\* and the Gateway answers every request.
FairClock ==
  /\ SpecClock
  /\ WF_vars(ProgressTick)
  /\ WF_vars(GatewayCreates)
  /\ WF_vars(WorkflowCreateResolves)
  /\ WF_vars(ClockTerminateResolves)

----------------------------------------------------------------------------
(* Push events for forks of an earlier session, next to frames that are    *)
(* not events.                                                             *)

\* Output lines a fork on the Gateway reaches here.
MaxEventOutput == 3
\* console.error calls after which no further unreadable frame is sent.
MaxConsoleErrors == 1

\* Frames that are not events: text that is not JSON, null, a number, an
\* object without a type.
MalformedFrames ==
  {[text |-> "<html>"], NullFrame, [number |-> 5], [forkId |-> RemoteId(1)]}

\* Something on the server side sends a frame that is not an event.
RemoteGarbage ==
  /\ Len(channel) < MaxMessages
  /\ consoleErrors < MaxConsoleErrors
  /\ \E frame \in MalformedFrames : channel' = Append(channel, frame)
  /\ UNCHANGED <<localForks, forkIdCounter, multiForkQueue, terminalOutput,
                 maxConcurrent, launches, terminates, apiForks, fetches,
                 fetchCount, remote, sockets, ws, reconnectAttempts,
                 reconnectTimers, disconnected, consoleErrors, listeners,
                 calls, stats, now>>

\* The forks the Gateway runs from an earlier session: the first has printed
\* two lines, the second none.
EarlierForks ==
  << [GatewayFork(1, createLocalFork(0, "claude", "default", "x", FALSE, NoWorkflow), 4242)
        EXCEPT !.output = <<Line(Unset, "compiling"), Line(Unset, "testing")>>],
     GatewayFork(2, createLocalFork(0, "codex", "fast", "y", FALSE, NoWorkflow), 4242) >>

\* The page has been loaded and the channel has opened; the list request of
\* the mount is on its way.
InitEvents ==
  /\ now = 0
  /\ localForks = <<>>
  /\ forkIdCounter = 1
  /\ multiForkQueue = <<>>
  /\ terminalOutput = InitialTerminalOutput
  /\ maxConcurrent = DefaultMaxConcurrent
  /\ launches = {}
  /\ terminates = {}
  /\ apiForks = <<>>
  /\ fetches = {[n |-> 1, phase |-> "sent", ok |-> FALSE, data |-> <<>>]}
  /\ fetchCount = 1
  /\ remote = EarlierForks
  /\ channel = <<>>
  /\ sockets = <<"open">>
  /\ ws = 1
  /\ reconnectAttempts = 0
  /\ reconnectTimers = <<>>
  /\ disconnected = FALSE
  /\ consoleErrors = 0
  /\ listeners = HookListeners
  /\ calls = <<>>
  /\ stats = InitialStats

EventOutputs ==
  \E k \in DOMAIN remote :
    Len(remote[k].output) < MaxEventOutput /\ RemoteOutput(k)

EventNext ==
  \/ GatewayLists
  \/ FetchResolves
  \/ EventOutputs
  \/ RemoteCompletes
  \/ RemoteGarbage
  \/ onmessage

SpecEvents == InitEvents /\ [][EventNext]_vars

----------------------------------------------------------------------------
(* Subscribers next to useForks: callbacks are registered and removed      *)
(* while events, and frames that name an event without data, arrive.       *)

\* Another part of the page registers one of its two callbacks.
Subscribe ==
  /\ \E t \in {"fork_output", "fork_completed"}, s \in {"s1", "s2"} :
       listeners' = on(listeners, t, s)
  /\ UNCHANGED <<appVars, channel, sockets, ws, reconnectAttempts,
                 reconnectTimers, disconnected, consoleErrors, calls>>

\* It calls the function on() has returned for a callback.
Unsubscribe ==
  /\ \E t \in DOMAIN listeners : \E n \in DOMAIN listeners[t] :
       /\ listeners[t][n] # HookHandler
       /\ listeners' = unsubscribe(listeners, t, listeners[t][n])
  /\ UNCHANGED <<appVars, channel, sockets, ws, reconnectAttempts,
                 reconnectTimers, disconnected, consoleErrors, calls>>

\* Something on the server side sends a fork_output frame without data.
RemoteTruncated ==
  /\ Len(channel) < MaxMessages
  /\ consoleErrors < MaxConsoleErrors
  /\ channel' = Append(channel, [type |-> "fork_output"])
  /\ UNCHANGED <<appVars, sockets, ws, reconnectAttempts, reconnectTimers,
                 disconnected, consoleErrors, listeners, calls>>

ListenerNext ==
  \/ Subscribe
  \/ Unsubscribe
  \/ EventOutputs
  \/ RemoteCompletes
  \/ RemoteTruncated
  \/ onmessage

SpecListeners == InitEvents /\ [][ListenerNext]_vars

----------------------------------------------------------------------------
(* A workflow and its retries on a page whose activity log is nearly full. *)

\* The page after "clear history" has been pressed n times in a row: the log
\* holds the three initial lines and n lines of clearHistory.
InitLog ==
  /\ \E n \in {0, LogKeep - 3, LogKeep - 2} :
       terminalOutput =
         InitialTerminalOutput \o
           [k \in 1..n |->
              [type |-> "system", text |-> "> Fork history cleared", time |-> 0]]
  /\ now = 0
  /\ localForks = <<>>
  /\ forkIdCounter = 1
  /\ multiForkQueue = <<>>
  /\ maxConcurrent \in MaxConcurrentInUse
  /\ launches = {}
  /\ terminates = {}
  /\ apiForks = <<>>
  /\ fetches = {[n |-> 1, phase |-> "sent", ok |-> FALSE, data |-> <<>>]}
  /\ fetchCount = 1
  /\ remote = <<>>
  /\ channel = <<>>
  /\ sockets = <<"connecting">>
  /\ ws = 1
  /\ reconnectAttempts = 0
  /\ reconnectTimers = <<>>
  /\ disconnected = FALSE
  /\ consoleErrors = 0
  /\ listeners = HookListeners
  /\ calls = <<>>
  /\ stats = InitialStats

SpecLog == InitLog /\ [][WorkflowNext]_vars

----------------------------------------------------------------------------
(* The batch queue edited while the clock runs and a fork is launched.  A  *)
(* click on "add to queue" comes at a later millisecond than the one       *)
(* before it: the prompt has to be typed again in between.                 *)

EditNext ==
  \/ AdvanceClock
  \/ (\A k \in DOMAIN multiForkQueue : multiForkQueue[k].id < now) /\ Enqueue
  \/ Dequeue
  \/ ClearQueue
  \/ ClockLaunch
  \/ WorkflowDispatch
  \/ GatewayCreates
  \/ WorkflowCreateResolves

SpecEdit == Init /\ [][EditNext]_vars

----------------------------------------------------------------------------
(* Single launches at least 300 ms apart: the timer of a launch has fired  *)
(* before the next click; the activity log is not bounded here.            *)

\* Fork records created in one run of the admission specification.
MaxAdmissionForks == 3

AdmissionLaunch ==
  /\ forkIdCounter <= MaxAdmissionForks
  /\ \A l \in launches : l.phase # "timer"
  /\ \E sel \in Selections : launchSingleFork(sel[1], sel[2], "x", sel[3])

AdmissionNext ==
  \/ AdmissionLaunch
  \/ WorkflowDispatch
  \/ GatewayCreates
  \/ WorkflowCreateResolves
  \/ (\E k \in DOMAIN localForks : localForks[k].status \in TerminalStatuses)
       /\ clearHistory

SpecAdmission == Init /\ [][AdmissionNext]_vars

----------------------------------------------------------------------------
(* The launch button of the batch queue pressed while the clock runs: a    *)
(* click on "add to queue" or on the button comes at a later millisecond   *)
(* than the last item was added.                                           *)

RelaunchNext ==
  \/ AdvanceClock
  \/ (\A k \in DOMAIN multiForkQueue : multiForkQueue[k].id < now) /\ Enqueue
  \/ (\A k \in DOMAIN multiForkQueue : multiForkQueue[k].id < now) /\ QueueLaunch
  \/ Dequeue
  \/ WorkflowDispatch
  \/ GatewayCreates
  \/ WorkflowCreateResolves

SpecRelaunch == Init /\ [][RelaunchNext]_vars

----------------------------------------------------------------------------
(* Claims about the local registry and the scheduler. *)

\* C1: terminal states are absorbing for local records: a record whose status
\* is completed, failed, cancelled or terminated keeps that status in every
\* later step.
C1_TerminalAbsorbing ==
  [][\A k \in DOMAIN localForks : \A j \in DOMAIN localForks' :
        (/\ localForks[k].status \in TerminalStatuses
         /\ localForks'[j].id = localForks[k].id)
          => localForks'[j].status = localForks[k].status]_vars

\* C2: in every reachable state the number of forks that are spawning or
\* running is at most maxConcurrent.
C2_AtMostMaxConcurrent ==
  CountStatus(localForks, {"spawning", "running"}) <= maxConcurrent

\* A single launch called when N >= maxConcurrent forks were queued, spawning
\* or running.
CalledAtCapacity(l) ==
  l.kind = "single" /\ l.closure.runningCount >= l.closure.maxConcurrent

PendingFor(id) == \E l \in launches : l.forks[l.i].id = id

\* C3: a launchSingle called when N >= maxConcurrent forks are queued,
\* spawning or running inserts the new fork as queued; no create request is
\* ever issued for it; its dispatch changes no fork record (so no running
\* count rises); and a queued fork leaves queued only by a dispatch that was
\* called below capacity.
C3_DeniedStaysQueued ==
  /\ [](\A l \in launches : CalledAtCapacity(l) => l.phase = "timer")
  /\ [][/\ (\A l \in launches' \ launches :
               (l.kind = "single" /\ l.phase = "timer") =>
                 (/\ l.closure.runningCount = CountStatus(localForks, ActiveStatuses)
                  /\ l.closure.maxConcurrent = maxConcurrent
                  /\ l.forks[1].status = "queued"
                  /\ localForks' = <<l.forks[1]>> \o localForks))
         /\ (\A m \in launches :
               (CalledAtCapacity(m) /\ m \notin launches') =>
                 (/\ localForks' = localForks
                  /\ ~PendingFor(m.forks[1].id)'))
         /\ (\A k \in DOMAIN localForks : \A j \in DOMAIN localForks' :
               (/\ localForks[k].status = "queued"
                /\ localForks'[j].id = localForks[k].id
                /\ localForks'[j].status # "queued")
                 => (/\ localForks'[j].status = "spawning"
                     /\ \E n \in launches :
                          /\ n.forks[n.i].id = localForks[k].id
                          /\ n.phase = "timer"
                          /\ n.closure.runningCount < n.closure.maxConcurrent))
        ]_vars

\* C3's case: a fork sits queued after its launch was denied (the warning
\* line is in the log and no launch is pending for it).
C3_Witness ==
  /\ \E k \in DOMAIN localForks :
       localForks[k].status = "queued" /\ ~PendingFor(localForks[k].id)
  /\ \E n \in DOMAIN terminalOutput :
       /\ terminalOutput[n].type = "warning"
       /\ terminalOutput[n].text =
            "> Max concurrent forks (" \o ToString(maxConcurrent) \o ") reached. Waiting..."

\* Nothing is pending: no launch sequence and no cancel is under way.
Quiescent == launches = {} /\ terminates = {}

\* C4: a slot that is freed leads to the promotion of a fork that is still
\* queued.  Stated on the states in which nothing is pending any more: there,
\* no fork is left queued while no fork at all is spawning or running.
C4_NoQueuedLeftBehind ==
  Quiescent =>
    ~(/\ CountStatus(localForks, {"queued"}) > 0
      /\ CountStatus(localForks, {"spawning", "running"}) = 0)

----------------------------------------------------------------------------
(* Claims about reconciliation. *)

\* The step delivers the oldest message in flight to the handlers.
Delivers == channel # <<>> /\ channel' = Tail(channel)

\* The status a terminal event carries.
EventStatus(message) ==
  IF message.type = "fork_completed" THEN "completed" ELSE "failed"

\* The local registry tracks the Gateway's fork id as spawning or running:
\* under that id once the create response is applied, before that under the
\* placeholder of the launch the Gateway has answered with that id.
TrackedLocally(id) ==
  \/ \E k \in DOMAIN localForks :
       /\ localForks[k].id = id
       /\ localForks[k].status \in {"spawning", "running"}
  \/ \E l \in launches :
       /\ l.phase = "answered" /\ l.resp.ok /\ l.resp.data.id = id
       /\ \E k \in DOMAIN localForks :
            /\ localForks[k].id = l.forks[l.i].id
            /\ localForks[k].status = "spawning"

\* C5: when fork_completed or fork_failed for an id is delivered while the
\* local registry tracks that id as spawning or running, every record the
\* merged view then presents for the id has the status carried by the event.
C5_TerminalEventWins ==
  [][(/\ Delivers
      /\ Head(channel).type \in {"fork_completed", "fork_failed"}
      /\ TrackedLocally(Head(channel).data.forkId))
       => \A k \in DOMAIN allForks' :
            allForks'[k].id = Head(channel).data.forkId
              => allForks'[k].status = EventStatus(Head(channel))]_vars

\* C6: the merged view holds at most one record per fork id.
C6_OneRecordPerId ==
  \A i, j \in DOMAIN allForks : allForks[i].id = allForks[j].id => i = j

\* The id a fork_update, fork_completed or fork_failed message is about.
EventId(message) ==
  IF message.type = "fork_update" THEN message.data.id ELSE message.data.forkId

\* C7: delivering fork_update, fork_completed or fork_failed for an id the
\* merged view does not hold puts a record for that id into the merged view
\* (for fork_completed: with status completed).
C7_UnknownIdInserted ==
  [][(/\ Delivers
      /\ Head(channel).type \in {"fork_update", "fork_completed", "fork_failed"}
      /\ ~HasId(allForks, EventId(Head(channel))))
       => /\ HasId(allForks', EventId(Head(channel)))
          /\ Head(channel).type = "fork_completed"
               => FindFork(allForks', EventId(Head(channel))).status = "completed"]_vars

IsPrefix(s, t) == Len(s) <= Len(t) /\ SubSeq(t, 1, Len(s)) = s

\* C8: across every step, the output the merged view presents for an id
\* extends the output it presented for that id before the step.
C8_OutputAppendOnly ==
  [][\A k \in DOMAIN allForks : \A j \in DOMAIN allForks' :
        allForks'[j].id = allForks[k].id
          => IsPrefix(allForks[k].output, allForks'[j].output)]_vars

\* The step applies the answer to a terminate call.
TerminateApplied == \E id \in terminates : id \notin terminates'

\* The step applies the answer to a list request.
ListApplied == \E f \in fetches : f.phase = "answered" /\ f \notin fetches'

\* C9: a gateway-known record whose status is completed, failed, cancelled or
\* terminated keeps that status across every delivery of a channel event,
\* every answered terminate call and every answered list request.
C9_ApiTerminalAbsorbing ==
  [][(Delivers \/ TerminateApplied \/ ListApplied)
       => \A k \in DOMAIN apiForks : \A j \in DOMAIN apiForks' :
            (/\ apiForks[k].status \in TerminalStatuses
             /\ apiForks'[j].id = apiForks[k].id)
              => apiForks'[j].status = apiForks[k].status]_vars

----------------------------------------------------------------------------
(* Claims about the channel. *)

\* C10: after disconnect(), and until the caller connects again, the channel
\* makes no connect(): no step creates a WebSocket.
C10_NoReconnectAfterDisconnect ==
  [][(disconnected /\ disconnected') => Len(sockets') = Len(sockets)]_vars

\* The step is the close event of a socket.
Closes == \E i \in DOMAIN sockets : sockets[i] # "closed" /\ sockets'[i] = "closed"

\* The delays of the reconnect attempts 1..5, in ms.
BackoffDelays == <<1000, 2000, 4000, 8000, 16000>>

\* C11: while no connection opens, every close schedules the next reconnect
\* attempt, attempt k with delay 1000 * 2^(k-1) ms, up to attempt 5; a close
\* after the fifth attempt schedules nothing, and nothing but a close ever
\* schedules an attempt.  (reconnectAttempts counts the attempts made since
\* a connection last opened.)
C11_FiveAttemptsDoubling ==
  /\ [](reconnectAttempts \in 0..5)
  /\ [][/\ ((Closes /\ reconnectAttempts < 5) =>
               (/\ reconnectAttempts' = reconnectAttempts + 1
                /\ reconnectTimers' =
                     Append(reconnectTimers, BackoffDelays[reconnectAttempts + 1])))
         /\ ((Closes /\ reconnectAttempts = 5) =>
               (reconnectAttempts' = 5 /\ reconnectTimers' = reconnectTimers))
         /\ (Len(reconnectTimers') > Len(reconnectTimers) => Closes)
         /\ reconnectAttempts' \in {reconnectAttempts, reconnectAttempts + 1, 0}
        ]_vars

\* C11's case: the first connection and five reconnect attempts have all
\* failed, and no further attempt is pending.
C11_Witness ==
  /\ Len(sockets) = 6
  /\ \A i \in DOMAIN sockets : sockets[i] = "closed"
  /\ reconnectAttempts = 5
  /\ reconnectTimers = <<>>
  /\ ~disconnected

\* The transports that can still deliver messages and close events.
LiveSockets == {i \in DOMAIN sockets : sockets[i] \in {"connecting", "open"}}

\* C12: connect() is idempotent: a connect() made while a transport is
\* connecting or open leaves exactly one live transport.
C12_ConnectIdempotent ==
  [][(Len(sockets') > Len(sockets) /\ LiveSockets # {})
       => Cardinality(LiveSockets') = 1]_vars

----------------------------------------------------------------------------
(* Claims about retry, batches and workflows. *)

\* Every id used so far: the placeholders createLocalFork has issued and the
\* ids the Gateway has issued.
IssuedIds ==
  {LocalId(n) : n \in 1..(forkIdCounter - 1)} \cup {RemoteId(n) : n \in 1..Len(remote)}

\* C13: retry(fork) inserts exactly one new record, queued with progress 0,
\* under an id that is neither the original's nor any id used before, with the
\* original's agent, modelTier, task, includeSummary and workflowId; no
\* existing record changes.
C13_RetryFreshCopy ==
  /\ [](ForkIds(localForks) \cup ForkIds(apiForks) \subseteq IssuedIds)
  /\ [][\A l \in launches' \ launches :
          (l.kind = "retry" /\ l.phase = "timer") =>
            (/\ localForks' = <<l.forks[1]>> \o localForks
             /\ apiForks' = apiForks
             /\ l.forks[1].status = "queued"
             /\ l.forks[1].progress = 0
             /\ l.forks[1].id \notin IssuedIds
             /\ \E k \in DOMAIN allForks :
                  /\ allForks[k].status \in {"failed", "cancelled"}
                  /\ allForks[k].id # l.forks[1].id
                  /\ allForks[k].agent = l.forks[1].agent
                  /\ allForks[k].modelTier = l.forks[1].modelTier
                  /\ allForks[k].task = l.forks[1].task
                  /\ allForks[k].includeSummary = l.forks[1].includeSummary
                  /\ allForks[k].workflowId = l.forks[1].workflowId)]_vars

\* C13's case: a failed fork of a workflow has been retried; the new record
\* is next to the original.
C13_Witness ==
  \E l \in launches : \E k, j \in DOMAIN localForks :
    /\ l.kind = "retry"
    /\ localForks[j] = l.forks[1]
    /\ localForks[k].status = "failed"
    /\ localForks[k].workflowId # NoWorkflow
    /\ localForks[k].workflowId = localForks[j].workflowId
    /\ localForks[k].task = localForks[j].task
    /\ localForks[k].id # localForks[j].id

\* C14: every fork a workflow launch has created is dispatched before the
\* launch sequence ends.  Stated on the states in which no launch is pending
\* any more (nothing dispatches a fork from there on): no fork of a workflow
\* is still queued.
C14_WorkflowForksDispatched ==
  Quiescent =>
    \A k \in DOMAIN localForks :
      localForks[k].workflowId # NoWorkflow => localForks[k].status # "queued"

\* The status of the record that carries the placeholder id of a launched
\* fork, "gone" once the record has taken the Gateway's id.
StatusOf(forks, id) == IF HasId(forks, id) THEN FindFork(forks, id).status ELSE "gone"

\* The launch sequence l of the given kind has just been started.
Started(l, kind) == l.kind = kind /\ l.phase = "timer" /\ l.i = 1

\* C15: launchWorkflow on a template with N entries inserts exactly N new
\* records, the i-th with the i-th entry's agent, modelTier and prompt, all
\* with the same workflowId; the forks are dispatched one at a time in template
\* order: entry i leaves queued only when it is the sequence's turn for i and
\* every earlier entry has been dispatched and its create call has returned.
C15_WorkflowInOrder ==
  [][/\ \A l \in launches' \ launches :
          Started(l, "workflow") =>
            \E w \in DOMAIN WORKFLOW_TEMPLATES :
              /\ Len(l.forks) = Len(WORKFLOW_TEMPLATES[w].forks)
              /\ localForks' = l.forks \o localForks
              /\ \A i \in DOMAIN l.forks :
                   /\ l.forks[i].agent = WORKFLOW_TEMPLATES[w].forks[i].agent
                   /\ l.forks[i].modelTier = WORKFLOW_TEMPLATES[w].forks[i].modelTier
                   /\ l.forks[i].task = WORKFLOW_TEMPLATES[w].forks[i].prompt
                   /\ l.forks[i].workflowId = l.forks[1].workflowId
                   /\ l.forks[i].workflowId # NoWorkflow
                   /\ l.forks[i].id \notin IssuedIds
                   /\ \A j \in DOMAIN l.forks : l.forks[j].id = l.forks[i].id => j = i
     /\ \A l \in launches : \A i \in DOMAIN l.forks :
          (/\ l.kind = "workflow"
           /\ StatusOf(localForks, l.forks[i].id) = "queued"
           /\ StatusOf(localForks', l.forks[i].id) # "queued")
            => /\ l.i = i
               /\ l.phase = "timer"
               /\ \A j \in 1..(i - 1) :
                    StatusOf(localForks, l.forks[j].id) \notin {"queued", "spawning"}
    ]_vars

\* C15's case: the third fork of a workflow has been dispatched after the
\* first two, and the three records share the workflowId.
C15_Witness ==
  \E l \in launches :
    /\ l.kind = "workflow" /\ l.i = 3 /\ l.phase = "sent"
    /\ Cardinality({k \in DOMAIN localForks :
                      localForks[k].workflowId = l.forks[1].workflowId}) = 3
    /\ StatusOf(localForks, l.forks[3].id) = "spawning"

\* The activity line launchMultiFork writes for a queue of k items.
BatchLine(k) == "> Launching " \o ToString(k) \o " forks in sequence..."

\* C16: launchBatch over a queue of K items inserts exactly K records, the
\* i-th with the i-th item's agent, modelTier, prompt and includeSummary, and
\* leaves the queue as it is; the forks are dispatched in queue order; the
\* steps of the sequence before the one that issues (or denies) the K-th
\* dispatch and awaits its create call do not touch the queue, and the step
\* that ends the sequence empties it; a batch is never started on an empty
\* queue.
C16_BatchInOrder ==
  /\ [](/\ \A l \in launches : l.kind = "batch" => Len(l.forks) > 0
        /\ \A n \in DOMAIN terminalOutput : terminalOutput[n].text # BatchLine(0))
  /\ [][/\ \A l \in launches' \ launches :
             Started(l, "batch") =>
               /\ Len(l.forks) = Len(multiForkQueue)
               /\ multiForkQueue' = multiForkQueue
               /\ localForks' = l.forks \o localForks
               /\ \A i \in DOMAIN l.forks :
                    /\ l.forks[i].agent = multiForkQueue[i].agent
                    /\ l.forks[i].modelTier = multiForkQueue[i].modelTier
                    /\ l.forks[i].task = multiForkQueue[i].prompt
                    /\ l.forks[i].includeSummary = multiForkQueue[i].includeSummary
                    /\ l.forks[i].status = "queued"
                    /\ l.forks[i].id \notin IssuedIds
                    /\ \A j \in DOMAIN l.forks : l.forks[j].id = l.forks[i].id => j = i
        /\ \A l \in launches : \A i \in DOMAIN l.forks :
             (/\ l.kind = "batch"
              /\ StatusOf(localForks, l.forks[i].id) = "queued"
              /\ StatusOf(localForks', l.forks[i].id) # "queued")
               => /\ l.i = i
                  /\ l.phase = "timer"
                  /\ \A j \in 1..(i - 1) :
                       StatusOf(localForks, l.forks[j].id) \notin {"queued", "spawning"}
        /\ \A l \in launches :
             (l.kind = "batch" /\ l \notin launches') =>
               IF \E m \in launches' \ launches : m.forks = l.forks
               THEN multiForkQueue' = multiForkQueue
               ELSE /\ l.i = Len(l.forks)
                    /\ multiForkQueue' = <<>>
       ]_vars

\* C16's case: a batch of two different items has run to its end: both forks
\* were created in queue order and the queue is empty.
C16_Witness ==
  /\ launches = {}
  /\ multiForkQueue = <<>>
  /\ \E n \in DOMAIN terminalOutput : terminalOutput[n].text = BatchLine(2)
  /\ Len(localForks) = 2
  /\ localForks[1].agent # localForks[2].agent
  /\ localForks[1].status = "running"
  /\ localForks[2].status = "running"

----------------------------------------------------------------------------
(* Claims about cancel, duration and the push events. *)

\* C17: cancel is called on a local fork that is spawning or running; when
\* the call completes (the terminate request has succeeded or failed), the
\* record of that fork is cancelled with completedAt set and no other field
\* changed, or, if it is in a terminal state by then, it is left as it is; no
\* other record changes.
C17_CancelMarksCancelled ==
  [][\A id \in terminates \ terminates' :
       /\ HasId(localForks, id)
       /\ Len(localForks') = Len(localForks)
       /\ \A k \in DOMAIN localForks :
            localForks'[k] =
              IF localForks[k].id = id /\ localForks[k].status \in ActiveStatuses
              THEN [localForks[k] EXCEPT !.status = "cancelled", !.completedAt = now']
              ELSE localForks[k]]_vars

\* The record at position k before the step, after the step (launches put
\* their new records in front).
After(k) == localForks'[k + Len(localForks') - Len(localForks)]

\* C18: the step that takes a local fork from running to completed or failed
\* sets duration to completedAt - startedAt, which is not negative, startedAt
\* being the time written when the fork went from queued to spawning; duration
\* is written by no other step and never over a value already written; a new
\* record has no duration.
C18_DurationOnce ==
  [][/\ Len(localForks') >= Len(localForks)
     /\ \A k \in DOMAIN localForks :
          /\ (localForks[k].status = "running"
                /\ After(k).status \in {"completed", "failed"})
               => /\ After(k).completedAt = now'
                  /\ After(k).duration = After(k).completedAt - localForks[k].startedAt
                  /\ After(k).duration >= 0
          /\ After(k).duration # localForks[k].duration
               => /\ localForks[k].duration = Unset
                  /\ localForks[k].status = "running"
                  /\ After(k).status \in {"completed", "failed"}
          /\ After(k).startedAt # localForks[k].startedAt
               => /\ localForks[k].status = "queued"
                  /\ After(k).status = "spawning"
                  /\ After(k).startedAt = now'
          /\ (localForks[k].status = "queued" /\ After(k).status = "spawning")
               => After(k).startedAt = now'
     /\ \A j \in 1..(Len(localForks') - Len(localForks)) :
          localForks'[j].duration = Unset
    ]_vars

\* C18's case: a fork dispatched after the clock had advanced has ended some
\* time later, with the time in between as its duration.
C18_Witness ==
  \E k \in DOMAIN localForks :
    /\ localForks[k].status \in {"completed", "failed"}
    /\ localForks[k].startedAt > 0
    /\ localForks[k].duration > 0
    /\ localForks[k].duration = localForks[k].completedAt - localForks[k].startedAt

\* The frame is an event of the given type.
IsEvent(frame, type) == "type" \in DOMAIN frame /\ frame.type = type

\* C19: delivering fork_output for an id the hook's list holds appends one
\* line with the event's text to the end of that fork's output, keeps the
\* lines it had in their order, and changes no other field and no other fork.
C19_OutputAppended ==
  [][(/\ Delivers
      /\ IsEvent(Head(channel), "fork_output")
      /\ HasId(apiForks, Head(channel).data.forkId))
       => /\ Len(apiForks') = Len(apiForks)
          /\ \A k \in DOMAIN apiForks :
               IF apiForks[k].id = Head(channel).data.forkId
               THEN /\ Len(apiForks'[k].output) = Len(apiForks[k].output) + 1
                    /\ IsPrefix(apiForks[k].output, apiForks'[k].output)
                    /\ apiForks'[k].output[Len(apiForks'[k].output)].text =
                         Head(channel).data.output
                    /\ [apiForks'[k] EXCEPT !.output = apiForks[k].output] = apiForks[k]
               ELSE apiForks'[k] = apiForks[k]]_vars

\* C19's case: "done" has arrived for the fork that had two lines, which now
\* has the three in order; the other fork has none.
C19_Witness ==
  \E k, j \in DOMAIN apiForks :
    /\ apiForks[k].id = RemoteId(1)
    /\ Len(apiForks[k].output) = 3
    /\ apiForks[k].output[1].text = "compiling"
    /\ apiForks[k].output[2].text = "testing"
    /\ apiForks[k].output[3] = Line(now, "done")
    /\ apiForks[j].id = RemoteId(2)
    /\ apiForks[j].output = <<>>

\* The frame is malformed: its text is not JSON, or what it holds is not an
\* object with a type.
Malformed(frame) == "type" \notin DOMAIN frame

\* C20: delivering a malformed frame changes neither list of forks, leaves
\* every socket as it is and starts no reconnection; and whatever was dropped
\* before, a well-formed event that is delivered reaches its handler.
C20_MalformedDropped ==
  [][/\ (Delivers /\ Malformed(Head(channel)))
          => /\ apiForks' = apiForks
             /\ localForks' = localForks
             /\ sockets' = sockets
             /\ ws' = ws
             /\ reconnectAttempts' = reconnectAttempts
             /\ reconnectTimers' = reconnectTimers
     /\ (Delivers /\ ~Malformed(Head(channel)))
          => apiForks' = emit(apiForks, Head(channel))
    ]_vars

\* C20's case: a frame has been dropped with an error on the console, the
\* socket is open with no reconnection under way, and the fork_output event
\* has been applied.
C20_Witness ==
  /\ consoleErrors > 0
  /\ channel = <<>>
  /\ sockets = <<"open">>
  /\ reconnectAttempts = 0
  /\ reconnectTimers = <<>>
  /\ \E k \in DOMAIN apiForks :
       /\ apiForks[k].id = RemoteId(1)
       /\ Len(apiForks[k].output) = 3
       /\ apiForks[k].output[3].text = "done"

----------------------------------------------------------------------------
(* Claims about subscriptions, the activity log and create failures. *)

\* C21: delivering a message of type T calls every callback registered for T
\* at that moment exactly once, in the order of registration, and no other
\* callback; a callback is registered at most once per type; and a step that
\* removes a callback from a type removes that one alone and leaves the
\* others of the type, and every other type, as they are.
C21_HandlersInvokedInOrder ==
  /\ [](\A t \in DOMAIN listeners : \A i, j \in DOMAIN listeners[t] :
          listeners[t][i] = listeners[t][j] => i = j)
  /\ [][/\ (Delivers /\ ~Malformed(Head(channel)))
             => calls' = IF Head(channel).type \in DOMAIN listeners
                         THEN listeners[Head(channel).type] ELSE <<>>
        /\ \A t \in DOMAIN listeners : \A n \in DOMAIN listeners[t] :
             (\A m \in DOMAIN listeners'[t] : listeners'[t][m] # listeners[t][n])
               => listeners' =
                    [listeners EXCEPT
                       ![t] = SelectSeq(@, LAMBDA c : c # listeners[t][n])]
       ]_vars

\* C22: the activity log never holds more than the last 100 lines plus the
\* new one; every step that changes it appends lines (one, or the two of a
\* dispatch) stamped with the time of the step, after the lines it had, and
\* drops lines only from the front and only as many as the bound requires:
\* the lines kept are the most recent ones, unchanged and in their order.
C22_LogBounded ==
  /\ [](Len(terminalOutput) <= LogKeep + 1)
  /\ [][terminalOutput' # terminalOutput =>
          \E m \in 1..2 :
            LET len == Len(terminalOutput)
                d == IF len + m > LogKeep + 1 THEN len + m - (LogKeep + 1) ELSE 0
            IN /\ Len(terminalOutput') = len - d + m
               /\ SubSeq(terminalOutput', 1, len - d) = SubSeq(terminalOutput, d + 1, len)
               /\ \A k \in (len - d + 1)..(len - d + m) :
                    terminalOutput'[k].time = now'
       ]_vars

\* C22's case: the log is full, the initial lines have been dropped from its
\* front, and the line of the latest launch is its last.
C22_Witness ==
  /\ Len(terminalOutput) = LogKeep + 1
  /\ terminalOutput[1].text = "> Fork history cleared"
  /\ terminalOutput[LogKeep + 1].type = "success"
  /\ \E k \in 1..LogKeep : terminalOutput[k].type = "workflow"

\* The launch sequence l takes the answer to its create call in this step.
Resolves(l) == l \in launches /\ l.phase = "answered" /\ l \notin launches'

\* C23: the step that takes a failed answer to the create call of a spawning
\* fork makes that record failed and changes nothing else of the registry,
\* and appends the error line to the activity log; a create request is only
\* ever issued for a fork that is queued, and a failed record stays failed,
\* so the fork gets no second request (a retry makes a new record).
C23_CreateFailureTerminal ==
  [][/\ \A l \in launches :
          (/\ Resolves(l) /\ ~l.resp.ok
           /\ StatusOf(localForks, l.forks[l.i].id) = "spawning")
            => /\ Len(localForks') = Len(localForks)
               /\ \A k \in DOMAIN localForks :
                    localForks'[k] =
                      IF localForks[k].id = l.forks[l.i].id
                      THEN [localForks[k] EXCEPT !.status = "failed"]
                      ELSE localForks[k]
               /\ Len(terminalOutput') = Len(terminalOutput) + 1
               /\ terminalOutput'[Len(terminalOutput')].type = "error"
               /\ terminalOutput'[Len(terminalOutput')].text = "> Failed to launch fork"
               /\ remote' = remote
     /\ \A m \in launches' \ launches :
          m.phase = "sent" => StatusOf(localForks, m.forks[m.i].id) = "queued"
     /\ \A k \in DOMAIN localForks : \A j \in DOMAIN localForks' :
          (localForks[k].status = "failed" /\ localForks'[j].id = localForks[k].id)
            => localForks'[j].status = "failed"
    ]_vars

\* C23's case: the create call of the first fork has failed; the record is
\* failed under its placeholder id, the error line is in the log, and no
\* launch is pending.
C23_Witness ==
  /\ launches = {}
  /\ remote = <<>>
  /\ StatusOf(localForks, LocalId(1)) = "failed"
  /\ terminalOutput[Len(terminalOutput)].text = "> Failed to launch fork"

\* C24: the step that takes a failed answer to the create call of item i of
\* a batch or workflow leaves every record but that item's as it is, in both
\* lists, and, when items remain, leaves the sequence waiting on the stagger
\* timer of item i + 1; and a sequence waiting on the timer of an item goes on
\* only by that item's dispatch attempt: the item becomes spawning and its
\* create request is sent, or the attempt is denied with the warning line.
C24_FailureLocalized ==
  [][/\ \A l \in launches :
          (Resolves(l) /\ ~l.resp.ok /\ l.kind \in {"batch", "workflow"})
            => /\ Len(localForks') = Len(localForks)
               /\ \A k \in DOMAIN localForks :
                    localForks[k].id # l.forks[l.i].id => localForks'[k] = localForks[k]
               /\ apiForks' = apiForks
               /\ l.i < Len(l.forks)
                    => \E m \in launches' :
                         /\ m.forks = l.forks /\ m.kind = l.kind
                         /\ m.i = l.i + 1 /\ m.phase = "timer"
     /\ \A l \in launches :
          (l.kind \in {"batch", "workflow"} /\ l.phase = "timer" /\ l \notin launches')
            => \/ /\ StatusOf(localForks', l.forks[l.i].id) = "spawning"
                  /\ [l EXCEPT !.phase = "sent"] \in launches'
               \/ /\ localForks' = localForks
                  /\ terminalOutput'[Len(terminalOutput')].type = "warning"
    ]_vars

\* C24's case: the create call of a workflow's first fork has failed, and the
\* second and third fork have been dispatched and run.
C24_Witness ==
  /\ launches = {}
  /\ Len(localForks) = 3
  /\ localForks[1].status = "failed"
  /\ localForks[1].workflowId # NoWorkflow
  /\ localForks[2].status = "running"
  /\ localForks[3].status = "running"

\* C25: the step that takes a successful answer without pid to the create
\* call of a spawning fork makes the record running with no pid; and the pid
\* of a local record is never anything but the pid the Gateway holds for the
\* fork of that id.
C25_PidFromGateway ==
  /\ [][\A l \in launches :
          (/\ Resolves(l) /\ l.resp.ok /\ l.resp.data.pid = Unset
           /\ StatusOf(localForks, l.forks[l.i].id) = "spawning")
            => /\ StatusOf(localForks', l.resp.data.id) = "running"
               /\ FindFork(localForks', l.resp.data.id).pid = Unset]_vars
  /\ [](\A k \in DOMAIN localForks :
          localForks[k].pid # Unset
            => \E r \in DOMAIN remote :
                 /\ remote[r].id = localForks[k].id
                 /\ remote[r].pid = localForks[k].pid)

\* The sequence without its k-th element.
Removed(seq, k) == SubSeq(seq, 1, k - 1) \o SubSeq(seq, k + 1, Len(seq))

\* C26: no item of the queue has a blank prompt; and a step that edits the
\* queue (no batch being under way) leaves both fork lists and the activity
\* log as they are and does one of three things: it puts one item after the
\* items there, with an id none of them has; or it takes out one item, the
\* others keeping their order; or it empties the queue.
C26_QueueEditsOnly ==
  /\ [](\A k \in DOMAIN multiForkQueue : Trim(multiForkQueue[k].prompt) # "")
  /\ [][multiForkQueue' # multiForkQueue =>
          /\ localForks' = localForks
          /\ apiForks' = apiForks
          /\ terminalOutput' = terminalOutput
          /\ forkIdCounter' = forkIdCounter
          /\ launches' = launches
          /\ \/ /\ Len(multiForkQueue') = Len(multiForkQueue) + 1
                /\ SubSeq(multiForkQueue', 1, Len(multiForkQueue)) = multiForkQueue
                /\ \A k \in DOMAIN multiForkQueue :
                     multiForkQueue[k].id # multiForkQueue'[Len(multiForkQueue')].id
             \/ \E k \in DOMAIN multiForkQueue :
                  multiForkQueue' = Removed(multiForkQueue, k)
             \/ multiForkQueue' = <<>>
       ]_vars

\* C26's case: of three items added at different times the middle one has
\* been removed, next to a fork that runs and its lines in the log.
C26_Witness ==
  /\ Len(multiForkQueue) = 2
  /\ multiForkQueue[1].id = 0
  /\ multiForkQueue[2].id = 2
  /\ CountStatus(localForks, {"running"}) = 1
  /\ Len(terminalOutput) > Len(InitialTerminalOutput)

----------------------------------------------------------------------------
(* Claims about the lifecycle of a local fork. *)

\* The edges of the lifecycle.
LifecycleEdges ==
  {<<"queued", "spawning">>, <<"spawning", "running">>, <<"spawning", "failed">>,
   <<"running", "completed">>, <<"running", "failed">>}
    \cup ({"queued", "spawning", "running"} \X {"cancelled", "terminated"})

\* The record at k before the step and the record at j after it are records
\* of the same fork: they have the same id, or the step replaces the
\* placeholder id of the first by the Gateway's id of the second.
SameFork(k, j) ==
  \/ localForks'[j].id = localForks[k].id
  \/ \E l \in launches :
       /\ Resolves(l) /\ l.resp.ok
       /\ localForks[k].id = l.forks[l.i].id
       /\ localForks'[j].id = l.resp.data.id

\* C27: every change of a local fork's status follows an edge of the
\* lifecycle.
C27_LifecycleEdges ==
  [][\A k \in DOMAIN localForks : \A j \in DOMAIN localForks' :
       (SameFork(k, j) /\ localForks'[j].status # localForks[k].status)
         => <<localForks[k].status, localForks'[j].status>> \in LifecycleEdges]_vars

\* C28: while the create call of a fork is under way the fork's record is
\* spawning (or has been cancelled meanwhile, or cancelled and cleared),
\* never queued, running or failed; the step that issues the request has
\* written spawning and appended the spawning line and the task line; a
\* record becomes running only in the step that takes the successful answer
\* to its create call, and a spawning record becomes failed only in the step
\* that takes the failed answer; and a denied dispatch issues no request and
\* leaves none pending for the fork.
C28_DispatchOrdering ==
  /\ [](\A l \in launches :
          l.phase \in {"sent", "answered"}
            => StatusOf(localForks, l.forks[l.i].id) \in {"spawning", "cancelled", "gone"})
  /\ [][/\ \A m \in launches' \ launches :
             m.phase = "sent"
               => /\ StatusOf(localForks', m.forks[m.i].id) = "spawning"
                  /\ terminalOutput'[Len(terminalOutput') - 1].type = "spawn"
                  /\ terminalOutput'[Len(terminalOutput')].text =
                       "> " \o TaskPreview(m.forks[m.i].task)
                  /\ [m EXCEPT !.phase = "timer"] \in launches
                  /\ m.closure.runningCount < m.closure.maxConcurrent
        /\ \A k \in DOMAIN localForks : \A j \in DOMAIN localForks' :
             (SameFork(k, j) /\ localForks'[j].status # localForks[k].status)
               => /\ localForks'[j].status = "running"
                       => \E l \in launches :
                            /\ Resolves(l) /\ l.resp.ok
                            /\ l.forks[l.i].id = localForks[k].id
                  /\ (localForks'[j].status = "failed" /\ localForks[k].status # "running")
                       => \E l \in launches :
                            /\ Resolves(l) /\ ~l.resp.ok
                            /\ l.forks[l.i].id = localForks[k].id
        /\ \A l \in launches :
             (/\ l.phase = "timer" /\ l \notin launches'
              /\ l.closure.runningCount >= l.closure.maxConcurrent)
               => /\ ~PendingFor(l.forks[l.i].id)'
                  /\ remote' = remote
       ]_vars

\* C28's case: the first fork runs under the Gateway's id after its create
\* call has resolved, and another was denied (the warning is in the log) and
\* is queued with no call pending.
C28_Witness ==
  /\ StatusOf(localForks, RemoteId(1)) = "running"
  /\ \E n \in DOMAIN terminalOutput : terminalOutput[n].type = "warning"
  /\ \E k \in DOMAIN localForks :
       localForks[k].status = "queued" /\ ~PendingFor(localForks[k].id)

\* C29: the step that takes a successful answer to the create call of a fork
\* whose record is in the registry under its placeholder id leaves no record
\* under the placeholder id and exactly one under the Gateway's id, at the
\* place of the placeholder record and with its agent, modelTier, task,
\* includeSummary, workflowId, startedAt and output; the other records stay
\* as they are.
C29_IdSubstituted ==
  [][\A l \in launches :
       (Resolves(l) /\ l.resp.ok /\ HasId(localForks, l.forks[l.i].id))
         => /\ ~HasId(localForks', l.forks[l.i].id)
            /\ Cardinality({j \in DOMAIN localForks' :
                              localForks'[j].id = l.resp.data.id}) = 1
            /\ Len(localForks') = Len(localForks)
            /\ \A k \in DOMAIN localForks :
                 IF localForks[k].id = l.forks[l.i].id
                 THEN /\ localForks'[k].id = l.resp.data.id
                      /\ localForks'[k].agent = localForks[k].agent
                      /\ localForks'[k].modelTier = localForks[k].modelTier
                      /\ localForks'[k].task = localForks[k].task
                      /\ localForks'[k].includeSummary = localForks[k].includeSummary
                      /\ localForks'[k].workflowId = localForks[k].workflowId
                      /\ localForks'[k].startedAt = localForks[k].startedAt
                      /\ localForks'[k].output = localForks[k].output
                 ELSE localForks'[k] = localForks[k]]_vars

\* C29's case: the first fork of a workflow runs under the Gateway's id and
\* has kept its workflowId and task; no record has its placeholder id, and
\* the second fork is still under its own.
C29_Witness ==
  /\ ~HasId(localForks, LocalId(1))
  /\ HasId(localForks, LocalId(2))
  /\ StatusOf(localForks, RemoteId(1)) = "running"
  /\ FindFork(localForks, RemoteId(1)).workflowId = WORKFLOW_TEMPLATES[1].id
  /\ FindFork(localForks, RemoteId(1)).task = WORKFLOW_TEMPLATES[1].forks[1].prompt

\* C30: the progress of every local record is within 0..100; a new record
\* has progress 0; the step that makes a record running sets its progress to
\* 5; and across a step a running record's progress does not decrease, and
\* changes only while the record is running.
C30_ProgressMonotone ==
  /\ [](\A k \in DOMAIN localForks : localForks[k].progress \in 0..100)
  /\ [][/\ \A j \in DOMAIN localForks' :
             (\A k \in DOMAIN localForks : ~SameFork(k, j))
               => localForks'[j].progress = 0
        /\ \A k \in DOMAIN localForks : \A j \in DOMAIN localForks' :
             SameFork(k, j)
               => /\ (/\ localForks'[j].status = "running"
                      /\ localForks[k].status # "running")
                       => localForks'[j].progress = 5
                  /\ localForks[k].status = "running"
                       => localForks'[j].progress >= localForks[k].progress
                  /\ (/\ localForks[k].status # "running"
                      /\ localForks'[j].status # "running")
                       => localForks'[j].progress = localForks[k].progress
       ]_vars

\* C30's case: a fork that started running at 5 has been taken to 100 by the
\* progress ticks and has ended.
C30_Witness ==
  \E k \in DOMAIN localForks :
    /\ localForks[k].status \in {"completed", "failed"}
    /\ localForks[k].progress = 100
    /\ localForks[k].id = RemoteId(1)

----------------------------------------------------------------------------
(* Claims about the stats, admission and the batch queue. *)

\* C31: stats is a projection of the merged view: totalForks is the number of
\* its records, completedForks the number of them that are completed (so at
\* most totalForks), each agent's usage the number of records of that agent;
\* and stats changes only in a step that changes the merged view's lists.
C31_StatsProjection ==
  /\ [](/\ stats.totalForks = Len(allForks)
        /\ stats.completedForks =
             Cardinality({k \in DOMAIN allForks : allForks[k].status = "completed"})
        /\ stats.completedForks <= stats.totalForks
        /\ \A a \in Agents :
             stats.agentUsage[a] =
               Cardinality({k \in DOMAIN allForks : allForks[k].agent = a}))
  /\ [][stats' # stats => (localForks' # localForks \/ apiForks' # apiForks)]_vars

\* C31's case: the view shows two forks of different agents, one of them
\* completed, and the stats have been recomputed since.
C31_Witness ==
  /\ Len(allForks) = 2
  /\ \E k \in DOMAIN allForks : allForks[k].status = "completed"
  /\ \E k \in DOMAIN allForks : allForks[k].status # "completed"
  /\ stats.agentUsage.codex = 1
  /\ stats.completedForks = 1

\* C32: admission is not blocked by forks left queued: when launchSingleFork
\* is called for a prompt that is not blank while no fork is spawning or
\* running and no launch sequence is pending (so that every queued fork is one
\* whose dispatch was denied), the new fork is admitted, that is, the
\* admission check its dispatch will make succeeds.
C32_AdmissionNotBlocked ==
  [][\A l \in launches' \ launches :
        (/\ l.kind = "single"
         /\ launches = {}
         /\ CountStatus(localForks, {"spawning", "running"}) = 0)
          => canLaunchFork(l.closure)]_vars

\* C34: clearHistory (the step that logs "Fork history cleared") removes from
\* the merged view exactly the forks whose status is terminal: the view
\* afterwards is the view before without them, every queued, spawning or
\* running fork unchanged and in its place, so that no fork shown as
\* completed, failed or cancelled is shown afterwards as anything else.
C34_ClearHistoryExact ==
  [][(/\ terminalOutput' # terminalOutput
      /\ terminalOutput'[Len(terminalOutput')].text = "> Fork history cleared")
       => allForks' = SelectSeq(allForks, LAMBDA f : f.status \in ActiveStatuses)]_vars

\* C35: no queue item is made into a fork twice: when launchMultiFork
\* creates the forks of a batch while an earlier batch is still in its
\* staggered sequence, none of the items it takes was in the queue when the
\* earlier batch began (an item added before that moment is one the earlier
\* batch has made into a fork).
C35_NoItemLaunchedTwice ==
  [][\A l \in launches' \ launches : \A m \in launches :
        (l.kind = "batch" /\ m.kind = "batch")
          => \A k \in DOMAIN l.forks :
               multiForkQueue[k].id >= m.forks[1].startedAt]_vars

\* C36: no queue item is lost: in the step that ends a batch's staggered
\* sequence, every item that was added after the batch began is still in the
\* queue.  Stated for a batch that is the only launch made so far.
C36_NoItemLost ==
  [][\A l \in launches :
        (l.kind = "batch" /\ l.i = Len(l.forks) /\ l \notin launches'
           /\ \A m \in launches' : m.forks # l.forks
           /\ forkIdCounter = Len(l.forks) + 1)
          => \A k \in DOMAIN multiForkQueue :
               multiForkQueue[k].id >= l.forks[1].startedAt
                 => \E j \in DOMAIN multiForkQueue' :
                      multiForkQueue'[j] = multiForkQueue[k]]_vars

----------------------------------------------------------------------------
(* Claims about a local fork's fields and its end. *)

\* C37: in every reachable state, for every local record: completed implies
\* progress 100 with completedAt and duration set; running implies progress
\* from 5 to below 100 with completedAt unset; queued implies progress 0.
C37_StatusFields ==
  \A k \in DOMAIN localForks : LET f == localForks[k] IN
    /\ (f.status = "completed"
          => f.progress = 100 /\ f.completedAt # Unset /\ f.duration # Unset)
    /\ (f.status = "running"
          => 5 <= f.progress /\ f.progress < 100 /\ f.completedAt = Unset)
    /\ (f.status = "queued" => f.progress = 0)

\* C38: with the interval firing and the Gateway answering, every local fork
\* that is spawning or running ends (completed, failed, cancelled or
\* terminated), and from some point on no local fork is spawning or running.
\* The n-th fork created is the n-th record from the end of the registry:
\* new records are put in front and none is removed here.
C38_EveryForkEnds ==
  /\ \A n \in 1..(MaxClockForks + 1) :
       (/\ Len(localForks) >= n
        /\ localForks[Len(localForks) + 1 - n].status \in {"spawning", "running"})
         ~> (/\ Len(localForks) >= n
             /\ localForks[Len(localForks) + 1 - n].status \in TerminalStatuses)
  /\ <>[](\A k \in DOMAIN localForks :
            localForks[k].status \notin {"spawning", "running"})

\* C38's case: a fork that was spawning and then running has been completed
\* by the interval, and nothing is pending.
C38_Witness ==
  /\ launches = {} /\ terminates = {}
  /\ localForks # <<>>
  /\ localForks[1].status = "completed"
  /\ localForks[1].duration # Unset

====
